---- MODULE Spec2Model ----
(***************************************************************************)
(* psnet: the traffic tracker (snapshot differ with its bounded log), the *)
(* packet sniffer's snippet ring, and the tick of App::update (speed       *)
(* monitor, DNS cache, hostname attachment), as state machines.            *)
(*                                                                         *)
(* Option<T> is modelled as a sequence: None is <<>>, Some(x) is <<x>>.    *)
(* An IPv4 address is the tuple of its four octets.  Wall-clock time       *)
(* stamps (Local::now) are not part of the model.                          *)
(***************************************************************************)
EXTENDS Integers, Sequences, FiniteSets, TLC

VARIABLES
    \* App (src/app.rs)
    connections,        \* App.connections: the tick's snapshot
    speed_history,      \* SpeedHistory: [download, upload, max_points]
    current_down_speed, \* a speed is a ratio of bytes to seconds, kept as written:
    current_up_speed,   \* [bytes |-> dr, secs |-> elapsed]
    peak_down,
    peak_up,
    total_down,
    total_up,
    prev_bytes_recv,
    prev_bytes_sent,
    dns_cache,          \* HashMap<IpAddr, Option<String>>
    dns_tick,           \* u32, as its two 16-bit halves [hi, lo]
    pid_cache,          \* App.pid_cache: the names of the PIDs resolved so far
    bottom_tab,         \* App.bottom_tab: "Traffic" or "Connections"
    show_listen,        \* App.show_listen
    hide_localhost_conn,\* App.hide_localhost_conn
    sort_column,        \* App.sort_column
    sort_ascending,     \* App.sort_ascending
    \* observation of App (history, not program state)
    wraps,              \* how many times dns_tick went from u32::MAX to 0
    reads,              \* the byte counters read so far, oldest first: [recv, sent]
    probe,              \* the helper function called last: [name, arg, result]
    fetched,            \* the last fetch_connections: the rows returned, the PIDs
                        \* it found not cached, and the lookups it made
    dns_seen,           \* what the last tick read of the OS DNS cache: [os, fallback],
                        \* fallback being None when ipconfig was not read
    \* TrafficTracker (src/network/capture.rs)
    prev_connections,   \* HashMap<ConnKey, ConnInfo>
    log,                \* Vec<TrafficEntry>, newest at the end
    max_log_size,
    auto_scroll,
    scroll_offset,
    filter_text,
    paused,
    conn_data,          \* HashMap<ConnKey, u64>, never written by the program
    hide_localhost,
    \* observation of the last operation (history, not program state)
    op,                 \* which operation ran last
    emitted,            \* the entries handed to push_event by the last operation
    peak,               \* the longest the log was after any push_event of that operation
    scenario,           \* the snapshots diffed since construction, while they begin a scenario
    during_pause,       \* the keys of the snapshots given while paused, since the last diff
    \* PacketSniffer (src/network/sniffer.rs)
    snippets,           \* the ring, oldest snippet first (the VecDeque behind the mutex)
    max_snippets,
    active,             \* AtomicBool
    error_msg,          \* Option<String> behind its mutex
    handle,             \* Option<JoinHandle>
    total_added,        \* AtomicUsize
    consumed_count,     \* the cursor of drain_new
    ring_lock,          \* the mutex of the ring: "free", or "thread" while the thread
                        \* holds it (the main context takes and releases it in one step)
    \* the sniffer thread
    t_pc,               \* where sniffer_thread stands; "idle" when no thread runs
    t_snippet,          \* the snippet parse_packet returned, until it is pushed
    sock_open,          \* the raw socket is open
    wsa_up,             \* WSAStartup has succeeded and WSACleanup has not run
    error_lock,         \* the mutex of error_msg: "free", "thread" or "main"
    t_err,              \* the arguments of the set_error call under way and the
                        \* releases that follow it: [msg, next]
    \* the main context inside the sniffer's API
    m_pc,               \* "ready", or where the call under way stands
    new_count,          \* drain_new's local of that name
    \* observation of the sniffer (history, not program state)
    enqueued,           \* every snippet pushed onto the ring, in the order pushed
    call,               \* the API call the last step completed, if it completed one
    raced,              \* the thread was inside its critical section during the
                        \* drain_new call under way (or last completed)
    failed,             \* the initialisation step at which the thread running (or
                        \* last run) failed, None if it did not
    kernel              \* the calls of the thread running (or last run) that acquired
                        \* or released a kernel resource, counted:
                        \* [startups, cleanups, sockets, closes]

trackerVars == <<prev_connections, log, max_log_size, auto_scroll, scroll_offset,
                 filter_text, paused, conn_data, hide_localhost>>
histVars == <<op, emitted, peak, scenario, during_pause>>
snifferVars == <<snippets, max_snippets, active, error_msg, handle, total_added,
                 consumed_count, ring_lock, t_pc, t_snippet, sock_open, wsa_up, m_pc,
                 new_count, enqueued, call, raced, failed, kernel, error_lock, t_err>>
appVars == <<speed_history, current_down_speed, current_up_speed, peak_down, peak_up,
             total_down, total_up, prev_bytes_recv, prev_bytes_sent, dns_cache,
             dns_tick, wraps, reads, dns_seen, probe, pid_cache, fetched,
             bottom_tab, show_listen, hide_localhost_conn,
             sort_column, sort_ascending>>
vars == <<connections, trackerVars, histVars, snifferVars, appVars>>

None == <<>>
Some(x) == <<x>>

\* ---------------------------------------------------------------- bounds

\* longest snapshot handed to one tick
MaxSnap == 2
\* largest max_log_size a tracker is constructed with
MaxLogSize == 2
\* largest scroll_offset the scroll keys are followed to
MaxScroll == 20
\* longest filter text typed
MaxFilter == 1
\* largest max_snippets a sniffer is constructed with
MaxSnippets == 3
\* most packets parse_packet accepts in one behaviour
MaxPackets == 6
\* the capacity of the speed history goes up to
MaxPoints == 2
\* the ticks of a behaviour that watches the DNS cache
MaxTicks == 4
\* the ticks of a behaviour that watches the byte counters
MaxSpeedTicks == 3

\* the rows PageUp and PageDown scroll by (handle_key)
PageStep == 20
\* the steps of the scroll keys
ScrollSteps == {1, PageStep}
\* the characters typed into the filter (any but q, p, c, x, which are commands)
FilterChars == {"g"}

\* ---------------------------------------------------------------- types.rs

\* TcpState::from_raw
FromRaw(v) ==
    CASE v = 1 -> [tag |-> "Closed", raw |-> 0]
      [] v = 2 -> [tag |-> "Listen", raw |-> 0]
      [] v = 3 -> [tag |-> "SynSent", raw |-> 0]
      [] v = 4 -> [tag |-> "SynReceived", raw |-> 0]
      [] v = 5 -> [tag |-> "Established", raw |-> 0]
      [] v = 6 -> [tag |-> "FinWait1", raw |-> 0]
      [] v = 7 -> [tag |-> "FinWait2", raw |-> 0]
      [] v = 8 -> [tag |-> "CloseWait", raw |-> 0]
      [] v = 9 -> [tag |-> "Closing", raw |-> 0]
      [] v = 10 -> [tag |-> "LastAck", raw |-> 0]
      [] v = 11 -> [tag |-> "TimeWait", raw |-> 0]
      [] v = 12 -> [tag |-> "DeleteTcb", raw |-> 0]
      [] OTHER -> [tag |-> "Unknown", raw |-> v]

\* TcpState::label
Label(s) ==
    CASE s.tag = "Closed" -> "CLOSED"
      [] s.tag = "Listen" -> "LISTEN"
      [] s.tag = "SynSent" -> "SYN_SENT"
      [] s.tag = "SynReceived" -> "SYN_RECV"
      [] s.tag = "Established" -> "ESTABLISHED"
      [] s.tag = "FinWait1" -> "FIN_WAIT1"
      [] s.tag = "FinWait2" -> "FIN_WAIT2"
      [] s.tag = "CloseWait" -> "CLOSE_WAIT"
      [] s.tag = "Closing" -> "CLOSING"
      [] s.tag = "LastAck" -> "LAST_ACK"
      [] s.tag = "TimeWait" -> "TIME_WAIT"
      [] s.tag = "DeleteTcb" -> "DELETE_TCB"
      [] OTHER -> "UNKNOWN"

Listen == FromRaw(2)

\* Ipv4Addr::is_loopback: 127.0.0.0/8
IsLoopback(ip) == ip[1] = 127

\* Connection::key
Key(c) ==
    [proto |-> c.proto, local_addr |-> c.local_addr, local_port |-> c.local_port,
     remote_addr |-> c.remote_addr, remote_port |-> c.remote_port]

WellKnownRemote ==
    {80, 443, 22, 21, 25, 53, 110, 143, 993, 995, 587, 465, 8080, 8443, 3306, 5432,
     6379, 27017}

\* (mutant) is_outbound counting local port 1024 as ephemeral
IsOutboundFrom1024(c) ==
    IF c.remote_port # None
    THEN \/ c.remote_port[1] \in WellKnownRemote
         \/ (c.local_port >= 1024 /\ c.remote_port[1] <= 1024)
         \/ c.local_port > 49152
    ELSE FALSE

\* Connection::is_outbound
IsOutbound(c) ==
    IF c.remote_port # None
    THEN \/ c.remote_port[1] \in WellKnownRemote
         \/ (c.local_port > 1024 /\ c.remote_port[1] <= 1024)
         \/ c.local_port > 49152
    ELSE FALSE

\* ---------------------------------------------------------------- utils.rs

\* x & 0xFF
LowByte(x) == x % 256

\* (mutant) ntohs reading the port from the upper half of the field
NtohsUpperHalf(port) ==
    (LowByte(port \div 65536) * 256 + LowByte((port \div 65536) \div 256)) % 65536

\* (mutant) ntohs as a plain cast to u16
NtohsNoSwap(port) == port % 65536

\* ntohs: ((port & 0xFF) << 8 | (port >> 8) & 0xFF) as u16; the two operands
\* of | share no bit, so | is +
Ntohs(port) == (LowByte(port) * 256 + LowByte(port \div 256)) % 65536

\* ---------------------------------------------------------------- connections.rs: get_process_name

\* the PIDs of the model and the text format!("PID:{}", pid) gives for each
Pids == {0, 4, 1000, 2000}
Placeholder(pid) ==
    CASE pid = 0 -> "PID:0"
      [] pid = 4 -> "PID:4"
      [] pid = 1000 -> "PID:1000"
      [] pid = 2000 -> "PID:2000"

\* name.starts_with("PID:"), for the names of the model
StartsWithPid(name) == name \in {Placeholder(pid) : pid \in Pids}

\* path.rsplit('\\').next(): the last component of a path, the path being
\* the sequence of its components
FileName(path) == path[Len(path)]

\* (mutant) get_process_name without CloseHandle on the path of a failed query
GetProcessNameLeaks(pid, opened, image) ==
    IF pid = 0 THEN [name |-> "[Kernel]", calls |-> <<>>]
    ELSE IF pid = 4 THEN [name |-> "System", calls |-> <<>>]
    ELSE IF ~opened THEN [name |-> Placeholder(pid), calls |-> <<"OpenProcess">>]
    ELSE IF image = None
         THEN [name |-> Placeholder(pid),
               calls |-> <<"OpenProcess", "QueryFullProcessImageNameW">>]
         ELSE [name |-> FileName(image[1]),
               calls |-> <<"OpenProcess", "QueryFullProcessImageNameW", "CloseHandle">>]

\* get_process_name(pid): the name returned and the kernel calls made.
\* opened: OpenProcess returned a handle; image: the path
\* QueryFullProcessImageNameW wrote, None if it failed or wrote nothing
GetProcessName(pid, opened, image) ==
    IF pid = 0 THEN [name |-> "[Kernel]", calls |-> <<>>]
    ELSE IF pid = 4 THEN [name |-> "System", calls |-> <<>>]
    ELSE IF ~opened THEN [name |-> Placeholder(pid), calls |-> <<"OpenProcess">>]
    ELSE LET calls == <<"OpenProcess", "QueryFullProcessImageNameW", "CloseHandle">>
         IN IF image = None
            THEN [name |-> Placeholder(pid), calls |-> calls]
            ELSE [name |-> FileName(image[1]), calls |-> calls]

\* the image paths the OS may report
ImagePaths ==
    {<<"C:", "Program Files", "Google", "chrome.exe">>, <<"C:", "Windows", "svchost.exe">>}
Images == {None} \cup {Some(path) : path \in ImagePaths}

\* ---------------------------------------------------------------- the tick's inputs

\* a row of the TCP table as fetch_tcp4 builds it, its process name attached
TcpRow(la, lp, ra, rp, raw, pid, name) ==
    [proto |-> "Tcp", local_addr |-> la, local_port |-> lp,
     remote_addr |-> Some(ra), remote_port |-> Some(rp),
     state |-> Some(FromRaw(raw)), pid |-> pid, process_name |-> name,
     dns_hostname |-> None]

\* a row of the UDP table as fetch_udp4 builds it: no remote endpoint, no state
UdpRow(la, lp, pid, name) ==
    [proto |-> "Udp", local_addr |-> la, local_port |-> lp,
     remote_addr |-> None, remote_port |-> None,
     state |-> None, pid |-> pid, process_name |-> name,
     dns_hostname |-> None]

GoogleIp == <<142, 250, 80, 46>>

\* the connection of the end-to-end scenarios, in TCP state raw
ScenarioConn(raw) == TcpRow(<<10, 0, 0, 1>>, 55123, GoogleIp, 443, raw, 1000, "chrome.exe")

\* a loopback-to-loopback connection
LoopConn(raw) == TcpRow(<<127, 0, 0, 1>>, 5000, <<127, 0, 0, 1>>, 6000, raw, 2000, "node.exe")

\* a bound UDP socket
UdpBind == UdpRow(<<0, 0, 0, 0>>, 5353, 3000, "svchost.exe")

\* the rows the ticks of a specification draw their snapshots from:
\* the scenario connection in SYN_SENT, ESTABLISHED and CLOSE_WAIT
StateRecords == {ScenarioConn(3), ScenarioConn(5), ScenarioConn(8)}
\* the rows update skips (LISTEN, a bound UDP socket) beside rows it diffs
FilterRecords == {ScenarioConn(2), ScenarioConn(5), ScenarioConn(8), UdpBind}
\* a loopback-to-loopback connection in two states, beside the scenario connection
LoopRecords == {LoopConn(5), LoopConn(8), ScenarioConn(5)}
\* states outside the table: Unknown(13) and Unknown(14)
UnknownRecords == {ScenarioConn(5), ScenarioConn(13), ScenarioConn(14)}
\* two connections, one of them also listening and in a second state
OpenRecords == {LoopConn(5), ScenarioConn(2), ScenarioConn(5), ScenarioConn(8)}
\* a connection to a host the DNS cache does not hold
UncachedConn == TcpRow(<<10, 0, 0, 1>>, 55124, <<10, 0, 0, 2>>, 8080, 5, 1000, "chrome.exe")
\* a closed socket: its remote end is 0.0.0.0:0
UnconnectedConn == TcpRow(<<10, 0, 0, 1>>, 55125, <<0, 0, 0, 0>>, 0, 1, 1000, "chrome.exe")
\* the four kinds of remote address: loopback, cached (in two states), not
\* cached, unspecified
HostRecords == {LoopConn(5), ScenarioConn(5), ScenarioConn(8), UncachedConn, UnconnectedConn}
\* one connection that opens and closes while keys are pressed
KeyRecords == {ScenarioConn(5)}

\* a socket listening on the loopback address
LoopListen == TcpRow(<<127, 0, 0, 1>>, 5000, <<0, 0, 0, 0>>, 0, 2, 2000, "node.exe")

\* a socket bound to the loopback address whose connect to another host is
\* under way (SYN_SENT)
HalfLoopConn == TcpRow(<<127, 0, 0, 1>>, 5001, <<10, 0, 0, 2>>, 8080, 3, 2000, "node.exe")

\* the rows of the two views: both endpoints loopback, the local one only, none
ViewRecords == {LoopConn(5), LoopListen, HalfLoopConn, ScenarioConn(5)}

\* a listening socket: fetch_tcp4 reports its remote end as 0.0.0.0:0
ListenAny == TcpRow(<<0, 0, 0, 0>>, 8080, <<0, 0, 0, 0>>, 0, 2, 4, "System")

\* the tables of the ticks that watch the DNS cache, each in the order
\* sort_connections leaves it in (by state rank, the default column)
DnsTables ==
    {<<>>,
     <<ScenarioConn(5), LoopConn(5)>>,
     <<ScenarioConn(5), ListenAny, UdpBind>>}

LoopIp == <<127, 0, 0, 1>>

\* the names an OS cache may hold for an address
NamesOf(ip) == IF ip = GoogleIp THEN {"www.google.com", "lb.google.com"}
               ELSE {"this-pc.local"}

\* what read_dns_cache_api or read_dns_cache_ipconfig may return: a map from
\* some of the addresses to a non-empty name each
DnsSources ==
    {m \in UNION {[ips -> NamesOf(GoogleIp) \cup NamesOf(LoopIp)] :
                     ips \in SUBSET {GoogleIp, LoopIp}} :
        \A ip \in DOMAIN m : m[ip] \in NamesOf(ip)}

\* no helper function called yet
NoProbe == [name |-> "none", arg |-> 0, result |-> 0]

\* the ports of the rows is_outbound is called on
LocalPorts == {22, 80, 443, 1024, 1025, 5000, 49152, 49153, 51000, 60000}
RemotePorts ==
    {None} \cup {Some(p) : p \in {0, 80, 443, 1000, 1024, 1025, 8080, 12345, 27017, 51234}}

\* the port fields ntohs is called on: DWORDs given by their upper half and
\* the two bytes of their lower half
PortFields ==
    {hi * 65536 + b1 * 256 + b0 :
        hi \in {0, 80, 443, 32767}, b1 \in {0, 1, 80, 187, 255}, b0 \in {0, 1, 80, 187, 255}}

\* the byte counters get_network_bytes may return (they rise, and fall when
\* an interface resets or goes away)
RecvCounts == {0, 1, 3}
SentCounts == {0, 2}

\* the seconds between two ticks: the main loop calls update once tick_rate,
\* one second, has passed
Elapsed == {1, 2}

RECURSIVE SeqsUpTo(_, _)
SeqsUpTo(S, n) ==
    IF n = 0 THEN {<<>>}
    ELSE LET shorter == SeqsUpTo(S, n - 1)
         IN shorter \cup {Append(q, x) : q \in {t \in shorter : Len(t) = n - 1}, x \in S}

\* the lists a tick may hold after the fetch (any order: the tick sorts them by
\* the selected column, which gives one of these orders)
Snapshots(records) == SeqsUpTo(records, MaxSnap)

EmptyMap == [k \in {} |-> None]

\* the DNS cache once resolve_dns has seen the scenario's remote address
GoogleCache == [ip \in {GoogleIp} |-> Some("www.google.com")]

\* ---------------------------------------------------------------- app.rs: resolve_dns

\* Ipv4Addr::is_unspecified
IsUnspecified(ip) == ip = <<0, 0, 0, 0>>

\* (mutant) the attachment looking the address up before testing for loopback
AttachHostnameCacheFirst(c, cache) ==
    IF c.remote_addr = None THEN c
    ELSE LET ip == c.remote_addr[1]
         IN IF IsUnspecified(ip) THEN c
            ELSE IF ip \in DOMAIN cache THEN [c EXCEPT !.dns_hostname = cache[ip]]
            ELSE IF IsLoopback(ip) THEN [c EXCEPT !.dns_hostname = Some("localhost")]
            ELSE c

\* the hostname-attachment loop of resolve_dns, for one connection
AttachHostname(c, cache) ==
    IF c.remote_addr = None THEN c
    ELSE LET ip == c.remote_addr[1]
         IN IF IsUnspecified(ip) THEN c
            ELSE IF IsLoopback(ip) THEN [c EXCEPT !.dns_hostname = Some("localhost")]
            ELSE IF ip \in DOMAIN cache THEN [c EXCEPT !.dns_hostname = cache[ip]]
            ELSE c

AttachHostnames(conns, cache) == [i \in DOMAIN conns |-> AttachHostname(conns[i], cache)]

\* ---------------------------------------------------------------- app.rs: sort_connections

\* the decimal digits of an octet or a port, as Display writes them
Digits(n) ==
    IF n < 10 THEN <<48 + n>>
    ELSE IF n < 100 THEN <<48 + (n \div 10), 48 + (n % 10)>>
    ELSE IF n < 1000 THEN <<48 + (n \div 100), 48 + ((n \div 10) % 10), 48 + (n % 10)>>
    ELSE IF n < 10000
         THEN <<48 + (n \div 1000), 48 + ((n \div 100) % 10), 48 + ((n \div 10) % 10),
                48 + (n % 10)>>
    ELSE <<48 + (n \div 10000), 48 + ((n \div 1000) % 10), 48 + ((n \div 100) % 10),
           48 + ((n \div 10) % 10), 48 + (n % 10)>>

\* IpAddr::to_string of an IPv4 address: the four octets joined by '.'
AddrToString(ip) ==
    Digits(ip[1]) \o <<46>> \o Digits(ip[2]) \o <<46>> \o Digits(ip[3]) \o <<46>>
        \o Digits(ip[4])

\* the bytes of the process names and labels the rows carry
Bytes(str) ==
    CASE str = "" -> <<>>
      [] str = "chrome.exe" -> <<99, 104, 114, 111, 109, 101, 46, 101, 120, 101>>
      [] str = "node.exe" -> <<110, 111, 100, 101, 46, 101, 120, 101>>
      [] str = "svchost.exe" -> <<115, 118, 99, 104, 111, 115, 116, 46, 101, 120, 101>>
      [] str = "System" -> <<83, 121, 115, 116, 101, 109>>
      [] str = "Code.exe" -> <<67, 111, 100, 101, 46, 101, 120, 101>>
      [] str = "TCP" -> <<84, 67, 80>>
      [] str = "UDP" -> <<85, 68, 80>>

\* str::to_lowercase over ASCII text
ToLowercase(text) ==
    [i \in DOMAIN text |-> IF text[i] \in 65..90 THEN text[i] + 32 ELSE text[i]]

\* Ord::cmp of two integers
CmpInt(a, b) == IF a < b THEN "Less" ELSE IF a > b THEN "Greater" ELSE "Equal"

\* Ord::cmp of two strings: byte by byte, a proper prefix being less
RECURSIVE CmpText(_, _)
CmpText(a, b) ==
    IF a = <<>> /\ b = <<>> THEN "Equal"
    ELSE IF a = <<>> THEN "Less"
    ELSE IF b = <<>> THEN "Greater"
    ELSE IF Head(a) # Head(b) THEN CmpInt(Head(a), Head(b))
    ELSE CmpText(Tail(a), Tail(b))

\* ConnProto::label
ProtoLabel(proto) == IF proto = "Tcp" THEN "TCP" ELSE "UDP"

\* state_rank
StateRank(state) ==
    IF state = None THEN 13
    ELSE CASE state[1].tag = "Established" -> 0
           [] state[1].tag = "SynSent" -> 1
           [] state[1].tag = "SynReceived" -> 2
           [] state[1].tag = "CloseWait" -> 3
           [] state[1].tag = "FinWait1" -> 4
           [] state[1].tag = "FinWait2" -> 5
           [] state[1].tag = "Closing" -> 6
           [] state[1].tag = "LastAck" -> 7
           [] state[1].tag = "TimeWait" -> 8
           [] state[1].tag = "Listen" -> 9
           [] state[1].tag = "Closed" -> 10
           [] state[1].tag = "DeleteTcb" -> 11
           [] state[1].tag = "Unknown" -> 12

\* remote_addr.map(|i| i.to_string()).unwrap_or_default()
RemoteText(c) == IF c.remote_addr = None THEN <<>> ELSE AddrToString(c.remote_addr[1])

\* remote_port.unwrap_or(0)
RemotePortOrZero(c) == IF c.remote_port = None THEN 0 ELSE c.remote_port[1]

\* Ordering::reverse
Reverse(ord) ==
    IF ord = "Less" THEN "Greater" ELSE IF ord = "Greater" THEN "Less" ELSE "Equal"

\* the closure of sort_by: the column's comparison, reversed when descending
Compare(col, asc, a, b) ==
    LET ord ==
          CASE col = 0 -> CmpText(Bytes(ProtoLabel(a.proto)), Bytes(ProtoLabel(b.proto)))
            [] col = 1 -> CmpText(AddrToString(a.local_addr), AddrToString(b.local_addr))
            [] col = 2 -> CmpInt(a.local_port, b.local_port)
            [] col = 3 -> CmpText(RemoteText(a), RemoteText(b))
            [] col = 4 -> CmpInt(RemotePortOrZero(a), RemotePortOrZero(b))
            [] col = 5 -> CmpInt(StateRank(a.state), StateRank(b.state))
            [] col = 6 -> CmpText(ToLowercase(Bytes(a.process_name)),
                                  ToLowercase(Bytes(b.process_name)))
            [] OTHER -> "Equal"
    IN IF asc THEN ord ELSE Reverse(ord)

\* (mutant) an insertion that goes before the records of the same key
InsertBeforeEqual(sorted, x, col, asc) ==
    LET later == {i \in DOMAIN sorted : Compare(col, asc, sorted[i], x) # "Less"}
        at == IF later = {} THEN Len(sorted) + 1
              ELSE CHOOSE i \in later : \A j \in later : i <= j
    IN SubSeq(sorted, 1, at - 1) \o <<x>> \o SubSeq(sorted, at, Len(sorted))

\* one element put into a sorted list: before the first element that is
\* greater, so behind the elements that compare equal (sort_by is stable)
InsertSorted(sorted, x, col, asc) ==
    LET greater == {i \in DOMAIN sorted : Compare(col, asc, sorted[i], x) = "Greater"}
        at == IF greater = {} THEN Len(sorted) + 1
              ELSE CHOOSE i \in greater : \A j \in greater : i <= j
    IN SubSeq(sorted, 1, at - 1) \o <<x>> \o SubSeq(sorted, at, Len(sorted))

\* Vec::sort_by over the closure, a stable sort
RECURSIVE SortBy(_, _, _)
SortBy(conns, col, asc) ==
    IF conns = <<>> THEN <<>>
    ELSE InsertSorted(SortBy(SubSeq(conns, 1, Len(conns) - 1), col, asc),
                      conns[Len(conns)], col, asc)

\* App::sort_connections
SortConnections(conns) == SortBy(conns, sort_column, sort_ascending)

\* ---------------------------------------------------------------- capture.rs: update

\* (mutant) only the UDP `continue`: LISTEN rows are diffed
SkippedUdpOnly(c) == c.proto = "Udp" /\ c.remote_addr = None

\* (mutant) a third `continue`, for rows whose two addresses are loopback
SkippedWithLoopback(c) ==
    \/ c.state = Some(Listen)
    \/ (c.proto = "Udp" /\ c.remote_addr = None)
    \/ (IsLoopback(c.local_addr) /\ c.remote_addr # None /\ IsLoopback(c.remote_addr[1]))

\* the two `continue`s at the head of both loops of update
Skipped(c) ==
    \/ c.state = Some(Listen)
    \/ (c.proto = "Udp" /\ c.remote_addr = None)

\* conn.remote_addr.and_then(|ip| dns_cache.get(&ip).cloned().flatten())
DnsName(c, cache) ==
    IF c.remote_addr # None /\ c.remote_addr[1] \in DOMAIN cache
    THEN cache[c.remote_addr[1]]
    ELSE None

ConnInfoOf(c, cache) ==
    [state |-> c.state, process_name |-> c.process_name, proto |-> c.proto,
     outbound |-> IsOutbound(c), dns_name |-> DnsName(c, cache)]

\* (mutant) the first loop without its two skips
CurrentMapOfAll(conns, cache) ==
    LET idx == DOMAIN conns
        last(k) == CHOOSE i \in idx :
                      /\ Key(conns[i]) = k
                      /\ \A j \in idx : Key(conns[j]) = k => j <= i
    IN [k \in {Key(conns[i]) : i \in idx} |-> ConnInfoOf(conns[last(k)], cache)]

\* the map `current` after the first loop: a later record of a key replaces an earlier one
CurrentMap(conns, cache) ==
    LET idx == {i \in DOMAIN conns : ~Skipped(conns[i])}
        last(k) == CHOOSE i \in idx :
                      /\ Key(conns[i]) = k
                      /\ \A j \in idx : Key(conns[j]) = k => j <= i
    IN [k \in {Key(conns[i]) : i \in idx} |-> ConnInfoOf(conns[last(k)], cache)]

\* self.conn_data.get(&key).copied()
DataOf(k, data) == IF k \in DOMAIN data THEN Some(data[k]) ELSE None

NewConnection == [kind |-> "NewConnection", from |-> None, to |-> None]
ConnectionClosed == [kind |-> "ConnectionClosed", from |-> None, to |-> None]
StateChange(ps, cs) == [kind |-> "StateChange", from |-> Some(ps), to |-> Some(cs)]

NewEntry(c, cache) ==
    [event |-> NewConnection, proto |-> c.proto,
     local_addr |-> c.local_addr, local_port |-> c.local_port,
     remote_addr |-> c.remote_addr, remote_port |-> c.remote_port,
     process_name |-> c.process_name, outbound |-> IsOutbound(c),
     state_label |-> IF c.state # None THEN Label(c.state[1]) ELSE "-",
     dns_name |-> DnsName(c, cache), data_size |-> None]

\* (mutant) from and to exchanged
StateChangeEntrySwapped(c, ps, cs, cache, data) ==
    [event |-> StateChange(cs, ps), proto |-> c.proto,
     local_addr |-> c.local_addr, local_port |-> c.local_port,
     remote_addr |-> c.remote_addr, remote_port |-> c.remote_port,
     process_name |-> c.process_name, outbound |-> IsOutbound(c),
     state_label |-> Label(cs),
     dns_name |-> DnsName(c, cache), data_size |-> DataOf(Key(c), data)]

\* (mutant) closed_events with the default label for every key
ClosedEntryNoState(k, info, data) ==
    [event |-> ConnectionClosed, proto |-> info.proto,
     local_addr |-> k.local_addr, local_port |-> k.local_port,
     remote_addr |-> k.remote_addr, remote_port |-> k.remote_port,
     process_name |-> info.process_name, outbound |-> info.outbound,
     state_label |-> "CLOSED",
     dns_name |-> info.dns_name, data_size |-> DataOf(k, data)]

StateChangeEntry(c, ps, cs, cache, data) ==
    [event |-> StateChange(ps, cs), proto |-> c.proto,
     local_addr |-> c.local_addr, local_port |-> c.local_port,
     remote_addr |-> c.remote_addr, remote_port |-> c.remote_port,
     process_name |-> c.process_name, outbound |-> IsOutbound(c),
     state_label |-> Label(cs),
     dns_name |-> DnsName(c, cache), data_size |-> DataOf(Key(c), data)]

ClosedEntry(k, info, data) ==
    [event |-> ConnectionClosed, proto |-> info.proto,
     local_addr |-> k.local_addr, local_port |-> k.local_port,
     remote_addr |-> k.remote_addr, remote_port |-> k.remote_port,
     process_name |-> info.process_name, outbound |-> info.outbound,
     state_label |-> IF info.state # None THEN Label(info.state[1]) ELSE "CLOSED",
     dns_name |-> info.dns_name, data_size |-> DataOf(k, data)]

\* (mutant) the second loop without its contains_key test: every record is new
RecordEventsAlwaysNew(c, prev, cache, data) ==
    IF Skipped(c) THEN <<>> ELSE <<NewEntry(c, cache)>>

\* (mutant) the second loop without its `if ps != cs`
RecordEventsNoCompare(c, prev, cache, data) ==
    IF Skipped(c) THEN <<>>
    ELSE IF Key(c) \notin DOMAIN prev THEN <<NewEntry(c, cache)>>
    ELSE LET p == prev[Key(c)]
         IN IF p.state # None /\ c.state # None
            THEN <<StateChangeEntry(c, p.state[1], c.state[1], cache, data)>>
            ELSE <<>>

\* the body of the second loop of update for one record: the entries it pushes
RecordEvents(c, prev, cache, data) ==
    IF Skipped(c) THEN <<>>
    ELSE IF Key(c) \notin DOMAIN prev THEN <<NewEntry(c, cache)>>
    ELSE LET p == prev[Key(c)]
         IN IF p.state # None /\ c.state # None /\ p.state[1] # c.state[1]
            THEN <<StateChangeEntry(c, p.state[1], c.state[1], cache, data)>>
            ELSE <<>>

\* the second loop of update: the entries pushed, in the order of the snapshot
RECURSIVE DiffEvents(_, _, _, _)
DiffEvents(conns, prev, cache, data) ==
    IF conns = <<>> THEN <<>>
    ELSE RecordEvents(Head(conns), prev, cache, data)
            \o DiffEvents(Tail(conns), prev, cache, data)

\* the keys of prev_connections that are not in `current`
ClosedKeys(prev, current) == {k \in DOMAIN prev : k \notin DOMAIN current}

\* the orders a HashMap may iterate a set of keys in
KeyOrders(S) ==
    {o \in [1..Cardinality(S) -> S] : \A i, j \in DOMAIN o : o[i] = o[j] => i = j}

\* closed_events, for one iteration order of prev_connections
ClosedEvents(order, prev, data) ==
    [i \in DOMAIN order |-> ClosedEntry(order[i], prev[order[i]], data)]

\* everything one unpaused update hands to push_event, in order: the second
\* loop's entries, then closed_events
UpdateEvents(conns, cache, order, prev, data) ==
    DiffEvents(conns, prev, cache, data) \o ClosedEvents(order, prev, data)

\* ---------------------------------------------------------------- capture.rs: push_event

\* (mutant) the excess taken from the newest end: log.truncate(max)
DrainTail(lg, max) == SubSeq(lg, 1, max)

\* log.drain(0..len - max): what is left of lg
DrainHead(lg, max) == SubSeq(lg, Len(lg) - max + 1, Len(lg))

\* (mutant) push_event without its trim
PushEventNoTrim(st, e, max, auto) ==
    LET pushed == Append(st.log, e)
    IN [log |-> pushed,
        scroll_offset |-> IF auto THEN Len(pushed) ELSE st.scroll_offset,
        peak |-> IF Len(pushed) > st.peak THEN Len(pushed) ELSE st.peak]

\* push_event on the pair of log and scroll_offset; peak follows the log's length
PushEvent(st, e, max, auto) ==
    LET pushed == Append(st.log, e)
        kept == IF Len(pushed) > max THEN DrainHead(pushed, max) ELSE pushed
    IN [log |-> kept,
        scroll_offset |-> IF auto THEN Len(kept) ELSE st.scroll_offset,
        peak |-> IF Len(kept) > st.peak THEN Len(kept) ELSE st.peak]

\* push_event for each entry of es in turn
RECURSIVE PushAll(_, _, _, _)
PushAll(st, es, max, auto) ==
    IF es = <<>> THEN st
    ELSE PushAll(PushEvent(st, Head(es), max, auto), Tail(es), max, auto)

\* ---------------------------------------------------------------- sniffer.rs: the ring

\* VecDeque::push_back
PushBack(ring, s) == Append(ring, s)

\* (mutant) the eviction taking the newest snippet: pop_back
PopBack(ring) == SubSeq(ring, 1, Len(ring) - 1)

\* VecDeque::pop_front: what is left of the ring
PopFront(ring) == Tail(ring)

\* Iterator::rev
Rev(q) == [i \in DOMAIN q |-> q[Len(q) + 1 - i]]

\* Iterator::take(n)
Take(q, n) == SubSeq(q, 1, IF n < Len(q) THEN n ELSE Len(q))

\* Iterator::skip(n)
Skip(q, n) == SubSeq(q, n + 1, Len(q))

\* (mutant) recent without its first rev(): the oldest count snippets
RecentOldest(ring, count) == Rev(Take(ring, count))

\* the expression of recent: iter().rev().take(count), collected, then reversed
RecentOf(ring, count) == Rev(Take(Rev(ring), count))

\* (mutant) drain_new taking the oldest snippets: iter().take(new_count)
DrainOldest(ring, n) == Take(ring, n)

\* the expression of drain_new: iter().skip(len.saturating_sub(new_count))
DrainOf(ring, n) == Skip(ring, IF Len(ring) >= n THEN Len(ring) - n ELSE 0)

NoCall == [name |-> "none", count |-> 0, result |-> <<>>]

\* a thread that has not called the socket library yet
NoKernelCalls == [startups |-> 0, cleanups |-> 0, sockets |-> 0, closes |-> 0]

\* ---------------------------------------------------------------- sniffer.rs: PacketSniffer

\* PacketSniffer::new(max_snippets)
InitSniffer ==
    /\ snippets = <<>>
    /\ max_snippets \in 0..MaxSnippets
    /\ active = FALSE
    /\ error_msg = None
    /\ handle = None
    /\ total_added = 0
    /\ consumed_count = 0
    /\ ring_lock = "free"
    /\ t_pc = "idle"
    /\ t_snippet = None
    /\ sock_open = FALSE
    /\ wsa_up = FALSE
    /\ m_pc = "ready"
    /\ new_count = 0
    /\ enqueued = <<>>
    /\ call = NoCall
    /\ raced = FALSE
    /\ failed = None
    /\ kernel = NoKernelCalls
    /\ error_lock = "free"
    /\ t_err = None

\* the tracker and the tick's snapshot, which no step of the sniffer touches
TrackerAside == UNCHANGED <<connections, trackerVars, histVars, appVars>>

\* (mutant) start without its test of the active flag
StartUnguarded ==
    /\ m_pc = "ready"
    /\ active' = TRUE
    /\ handle' = Some("thread")
    /\ t_pc' = "wsa"
    /\ failed' = None
    /\ kernel' = NoKernelCalls
    /\ call' = [name |-> "start", count |-> 0, result |-> <<>>]
    /\ UNCHANGED <<snippets, max_snippets, error_msg, total_added, consumed_count,
                   ring_lock, t_snippet, sock_open, wsa_up, m_pc, new_count, enqueued>>
    /\ UNCHANGED raced
    /\ UNCHANGED <<error_lock, t_err>>
    /\ TrackerAside

\* PacketSniffer::start
Start ==
    /\ m_pc = "ready"
    /\ IF active
       THEN UNCHANGED <<active, handle, t_pc, failed, kernel>>
       ELSE /\ active' = TRUE
            /\ handle' = Some("thread")
            /\ t_pc' = "wsa"
            /\ failed' = None
            /\ kernel' = NoKernelCalls
    /\ call' = [name |-> "start", count |-> 0, result |-> <<>>]
    /\ UNCHANGED <<snippets, max_snippets, error_msg, total_added, consumed_count,
                   ring_lock, t_snippet, sock_open, wsa_up, m_pc, new_count, enqueued>>
    /\ UNCHANGED raced
    /\ UNCHANGED <<error_lock, t_err>>
    /\ TrackerAside

\* PacketSniffer::stop, up to its join
Stop ==
    /\ m_pc = "ready"
    /\ active' = FALSE
    /\ m_pc' = IF handle # None THEN "join" ELSE "ready"
    /\ call' = IF handle # None THEN NoCall
               ELSE [name |-> "stop", count |-> 0, result |-> <<>>]
    /\ UNCHANGED <<snippets, max_snippets, error_msg, handle, total_added,
                   consumed_count, ring_lock, t_pc, t_snippet, sock_open, wsa_up,
                   new_count, enqueued>>
    /\ UNCHANGED <<raced, failed, kernel>>
    /\ UNCHANGED <<error_lock, t_err>>
    /\ TrackerAside

\* PacketSniffer::stop: handle.take() and the join, which returns once the thread has ended
Join ==
    /\ m_pc = "join"
    /\ t_pc = "idle"
    /\ handle' = None
    /\ m_pc' = "ready"
    /\ call' = [name |-> "stop", count |-> 0, result |-> <<>>]
    /\ UNCHANGED <<snippets, max_snippets, active, error_msg, total_added,
                   consumed_count, ring_lock, t_pc, t_snippet, sock_open, wsa_up,
                   new_count, enqueued>>
    /\ UNCHANGED <<raced, failed, kernel>>
    /\ UNCHANGED <<error_lock, t_err>>
    /\ TrackerAside

\* PacketSniffer::recent(count): the mutex is taken, the ring read, the mutex released
Recent(count) ==
    /\ m_pc = "ready"
    /\ ring_lock = "free"
    /\ call' = [name |-> "recent", count |-> count, result |-> RecentOf(snippets, count)]
    /\ UNCHANGED <<snippets, max_snippets, active, error_msg, handle, total_added,
                   consumed_count, ring_lock, t_pc, t_snippet, sock_open, wsa_up, m_pc,
                   new_count, enqueued>>
    /\ UNCHANGED <<raced, failed, kernel>>
    /\ UNCHANGED <<error_lock, t_err>>
    /\ TrackerAside

\* PacketSniffer::get_error: self.error_msg.lock()
GetErrorLock ==
    /\ m_pc = "ready"
    /\ error_lock = "free"
    /\ error_lock' = "main"
    /\ m_pc' = "get_error"
    /\ call' = NoCall
    /\ UNCHANGED <<snippets, max_snippets, active, error_msg, handle, total_added,
                   consumed_count, ring_lock, t_pc, t_snippet, sock_open, wsa_up,
                   new_count, enqueued>>
    /\ UNCHANGED <<raced, failed, kernel, t_err>>
    /\ TrackerAside

\* PacketSniffer::get_error under the mutex: the message is cloned, and the
\* guard dropped
GetError ==
    /\ m_pc = "get_error"
    /\ error_lock' = "free"
    /\ m_pc' = "ready"
    /\ call' = [name |-> "get_error", count |-> 0, result |-> error_msg]
    /\ UNCHANGED <<snippets, max_snippets, active, error_msg, handle, total_added,
                   consumed_count, ring_lock, t_pc, t_snippet, sock_open, wsa_up,
                   new_count, enqueued>>
    /\ UNCHANGED <<raced, failed, kernel, t_err>>
    /\ TrackerAside

\* PacketSniffer::drain_new up to the mutex: total_added is loaded and the cursor moved
DrainLoad ==
    /\ m_pc = "ready"
    /\ IF total_added <= consumed_count
       THEN /\ call' = [name |-> "drain_new", count |-> 0, result |-> <<>>]
            /\ UNCHANGED <<consumed_count, new_count, m_pc>>
       ELSE /\ new_count' = total_added - consumed_count
            /\ consumed_count' = total_added
            /\ m_pc' = "drain"
            /\ call' = NoCall
    /\ raced' = (ring_lock = "thread")
    /\ UNCHANGED <<snippets, max_snippets, active, error_msg, handle, total_added,
                   ring_lock, t_pc, t_snippet, sock_open, wsa_up, enqueued, failed,
                   kernel>>
    /\ UNCHANGED <<error_lock, t_err>>
    /\ TrackerAside

\* PacketSniffer::drain_new under the mutex: the last new_count snippets of the ring
DrainRead ==
    /\ m_pc = "drain"
    /\ ring_lock = "free"
    /\ m_pc' = "ready"
    /\ call' = [name |-> "drain_new", count |-> new_count,
                result |-> DrainOf(snippets, new_count)]
    /\ UNCHANGED <<snippets, max_snippets, active, error_msg, handle, total_added,
                   consumed_count, ring_lock, t_pc, t_snippet, sock_open, wsa_up,
                   new_count, enqueued, raced, failed, kernel>>
    /\ UNCHANGED <<error_lock, t_err>>
    /\ TrackerAside

\* ---------------------------------------------------------------- sniffer.rs: sniffer_thread

\* what a step of the thread leaves alone besides what it names
ThreadStep ==
    /\ call' = NoCall
    /\ UNCHANGED <<max_snippets, handle, consumed_count, m_pc, new_count>>
    /\ TrackerAside

\* (mutant) a failed initialisation call that lacks its `return`: the thread
\* goes on to the capture loop
InitFailsGoesOn(msg, next) ==
    /\ t_err' = Some([msg |-> msg, next |-> "check"])
    /\ t_pc' = "fail"
    /\ failed' = Some(t_pc)
    /\ UNCHANGED <<error_msg, error_lock>>

\* an initialisation call fails: the thread calls set_error(msg), and goes on
\* to the releases at `next` after it
InitFails(msg, next) ==
    /\ t_err' = Some([msg |-> msg, next |-> next])
    /\ t_pc' = "fail"
    /\ failed' = Some(t_pc)
    /\ UNCHANGED <<error_msg, error_lock>>

\* an initialisation call succeeds
InitPasses(next) ==
    /\ t_pc' = next
    /\ UNCHANGED <<error_msg, failed, error_lock, t_err>>

\* set_error: error_msg.lock()
T_Fail ==
    /\ t_pc = "fail"
    /\ error_lock = "free"
    /\ error_lock' = "thread"
    /\ t_pc' = "set_error"
    /\ UNCHANGED <<snippets, active, error_msg, total_added, ring_lock, t_snippet,
                   sock_open, wsa_up, enqueued>>
    /\ UNCHANGED <<raced, failed, kernel, t_err>>
    /\ ThreadStep

\* set_error under the mutex: *e = Some(msg), and the guard is dropped
T_SetError ==
    /\ t_pc = "set_error"
    /\ error_msg' = Some(t_err[1].msg)
    /\ error_lock' = "free"
    /\ t_pc' = t_err[1].next
    /\ t_err' = None
    /\ UNCHANGED <<snippets, active, total_added, ring_lock, t_snippet, sock_open, wsa_up,
                   enqueued>>
    /\ UNCHANGED <<raced, failed, kernel>>
    /\ ThreadStep

\* WSAStartup
T_WSAStartup ==
    /\ t_pc = "wsa"
    /\ \/ /\ wsa_up' = TRUE
          /\ kernel' = [kernel EXCEPT !.startups = @ + 1]
          /\ InitPasses("localip")
       \/ /\ InitFails("WSAStartup failed", "deactivate")
          /\ UNCHANGED <<wsa_up, kernel>>
    /\ UNCHANGED <<snippets, active, total_added, ring_lock, t_snippet, sock_open, enqueued>>
    /\ UNCHANGED raced
    /\ ThreadStep

\* get_local_ipv4
T_LocalIp ==
    /\ t_pc = "localip"
    /\ \/ InitPasses("socket")
       \/ InitFails("Could not determine local IP", "cleanup")
    /\ UNCHANGED <<snippets, active, total_added, ring_lock, t_snippet, sock_open, wsa_up,
                   enqueued>>
    /\ UNCHANGED <<raced, kernel>>
    /\ ThreadStep

\* socket(AF_INET, SOCK_RAW, IPPROTO_IP)
T_Socket ==
    /\ t_pc = "socket"
    /\ \/ /\ sock_open' = TRUE
          /\ kernel' = [kernel EXCEPT !.sockets = @ + 1]
          /\ InitPasses("bind")
       \/ /\ InitFails("Raw socket creation failed (run as Administrator)", "cleanup")
          /\ UNCHANGED <<sock_open, kernel>>
    /\ UNCHANGED <<snippets, active, total_added, ring_lock, t_snippet, wsa_up, enqueued>>
    /\ UNCHANGED raced
    /\ ThreadStep

\* bind
T_Bind ==
    /\ t_pc = "bind"
    /\ \/ InitPasses("ioctl")
       \/ InitFails("Socket bind failed", "close")
    /\ UNCHANGED <<snippets, active, total_added, ring_lock, t_snippet, sock_open, wsa_up,
                   enqueued>>
    /\ UNCHANGED <<raced, kernel>>
    /\ ThreadStep

\* WSAIoctl(SIO_RCVALL)
T_Ioctl ==
    /\ t_pc = "ioctl"
    /\ \/ InitPasses("enter")
       \/ InitFails("SIO_RCVALL failed (requires Administrator privileges)", "close")
    /\ UNCHANGED <<snippets, active, total_added, ring_lock, t_snippet, sock_open, wsa_up,
                   enqueued>>
    /\ UNCHANGED <<raced, kernel>>
    /\ ThreadStep

\* "Clear any previous error": error_msg.lock()
T_Enter ==
    /\ t_pc = "enter"
    /\ error_lock = "free"
    /\ error_lock' = "thread"
    /\ t_pc' = "live"
    /\ UNCHANGED <<snippets, active, error_msg, total_added, ring_lock, t_snippet,
                   sock_open, wsa_up, enqueued>>
    /\ UNCHANGED <<raced, failed, kernel, t_err>>
    /\ ThreadStep

\* (mutant) the thread entering its loop without clearing the message
T_LiveKeepsError ==
    /\ t_pc = "live"
    /\ error_lock' = "free"
    /\ t_pc' = "check"
    /\ UNCHANGED <<snippets, active, error_msg, total_added, ring_lock, t_snippet,
                   sock_open, wsa_up, enqueued>>
    /\ UNCHANGED <<raced, failed, kernel, t_err>>
    /\ ThreadStep

\* "Clear any previous error" under the mutex: *e = None, and the guard is dropped
T_Live ==
    /\ t_pc = "live"
    /\ error_msg' = None
    /\ error_lock' = "free"
    /\ t_pc' = "check"
    /\ UNCHANGED <<snippets, active, total_added, ring_lock, t_snippet, sock_open, wsa_up,
                   enqueued>>
    /\ UNCHANGED <<raced, failed, kernel, t_err>>
    /\ ThreadStep

\* while active.load()
T_Check ==
    /\ t_pc = "check"
    /\ t_pc' = IF active THEN "recv" ELSE "close"
    /\ UNCHANGED <<snippets, active, error_msg, total_added, ring_lock, t_snippet,
                   sock_open, wsa_up, enqueued>>
    /\ UNCHANGED <<raced, failed, kernel>>
    /\ UNCHANGED <<error_lock, t_err>>
    /\ ThreadStep

\* (mutant) the loop without `|| !active.load()` after recv
T_RecvIgnoresFlag ==
    /\ t_pc = "recv"
    /\ \/ t_pc' = "close" /\ UNCHANGED t_snippet
       \/ /\ t_pc' = "check"
          /\ UNCHANGED t_snippet
       \/ /\ Len(enqueued) < MaxPackets
          /\ t_snippet' = Some(Len(enqueued) + 1)
          /\ t_pc' = "lock"
    /\ UNCHANGED <<snippets, active, error_msg, total_added, ring_lock, sock_open, wsa_up,
                   enqueued>>
    /\ UNCHANGED <<raced, failed, kernel>>
    /\ UNCHANGED <<error_lock, t_err>>
    /\ ThreadStep

\* recv returns: with len <= 0, or with a packet; then active is read again and
\* parse_packet either drops the packet or returns a snippet
T_Recv ==
    /\ t_pc = "recv"
    /\ \/ t_pc' = "close" /\ UNCHANGED t_snippet
       \/ /\ ~active
          /\ t_pc' = "close"
          /\ UNCHANGED t_snippet
       \/ /\ active
          /\ t_pc' = "check"
          /\ UNCHANGED t_snippet
       \/ /\ active
          /\ Len(enqueued) < MaxPackets
          /\ t_snippet' = Some(Len(enqueued) + 1)
          /\ t_pc' = "lock"
    /\ UNCHANGED <<snippets, active, error_msg, total_added, ring_lock, sock_open, wsa_up,
                   enqueued>>
    /\ UNCHANGED <<raced, failed, kernel>>
    /\ UNCHANGED <<error_lock, t_err>>
    /\ ThreadStep

\* snippets.lock()
T_Lock ==
    /\ t_pc = "lock"
    /\ ring_lock = "free"
    /\ ring_lock' = "thread"
    /\ t_pc' = "push"
    /\ UNCHANGED <<snippets, active, error_msg, total_added, t_snippet, sock_open, wsa_up,
                   enqueued>>
    /\ raced' = (raced \/ m_pc = "drain")
    /\ UNCHANGED <<failed, kernel>>
    /\ UNCHANGED <<error_lock, t_err>>
    /\ ThreadStep

\* lock.push_back(snippet)
T_Push ==
    /\ t_pc = "push"
    /\ snippets' = PushBack(snippets, t_snippet[1])
    /\ enqueued' = Append(enqueued, t_snippet[1])
    /\ t_snippet' = None
    /\ t_pc' = "count"
    /\ UNCHANGED <<active, error_msg, total_added, ring_lock, sock_open, wsa_up>>
    /\ UNCHANGED <<raced, failed, kernel>>
    /\ UNCHANGED <<error_lock, t_err>>
    /\ ThreadStep

\* total_added.fetch_add(1)
T_Count ==
    /\ t_pc = "count"
    /\ total_added' = total_added + 1
    /\ t_pc' = "evict"
    /\ UNCHANGED <<snippets, active, error_msg, ring_lock, t_snippet, sock_open, wsa_up,
                   enqueued>>
    /\ UNCHANGED <<raced, failed, kernel>>
    /\ UNCHANGED <<error_lock, t_err>>
    /\ ThreadStep

\* (mutant) the eviction that keeps the guard of the ring when it is done
T_EvictKeepsLock ==
    /\ t_pc = "evict"
    /\ IF Len(snippets) > max_snippets
       THEN /\ snippets' = PopFront(snippets)
            /\ UNCHANGED t_pc
       ELSE /\ t_pc' = "check"
            /\ UNCHANGED snippets
    /\ UNCHANGED <<active, error_msg, total_added, ring_lock, t_snippet, sock_open, wsa_up,
                   enqueued>>
    /\ UNCHANGED <<raced, failed, kernel>>
    /\ UNCHANGED <<error_lock, t_err>>
    /\ ThreadStep

\* while lock.len() > max_snippets { lock.pop_front(); }, then the guard is dropped
T_Evict ==
    /\ t_pc = "evict"
    /\ IF Len(snippets) > max_snippets
       THEN /\ snippets' = PopFront(snippets)
            /\ UNCHANGED <<ring_lock, t_pc>>
       ELSE /\ ring_lock' = "free"
            /\ t_pc' = "check"
            /\ UNCHANGED snippets
    /\ UNCHANGED <<active, error_msg, total_added, t_snippet, sock_open, wsa_up, enqueued>>
    /\ UNCHANGED <<raced, failed, kernel>>
    /\ UNCHANGED <<error_lock, t_err>>
    /\ ThreadStep

\* closesocket(sock)
T_Close ==
    /\ t_pc = "close"
    /\ sock_open' = FALSE
    /\ t_pc' = "cleanup"
    /\ UNCHANGED <<snippets, active, error_msg, total_added, ring_lock, t_snippet, wsa_up,
                   enqueued>>
    /\ kernel' = [kernel EXCEPT !.closes = @ + 1]
    /\ UNCHANGED <<raced, failed>>
    /\ UNCHANGED <<error_lock, t_err>>
    /\ ThreadStep

\* WSACleanup()
T_Cleanup ==
    /\ t_pc = "cleanup"
    /\ wsa_up' = FALSE
    /\ t_pc' = "deactivate"
    /\ UNCHANGED <<snippets, active, error_msg, total_added, ring_lock, t_snippet,
                   sock_open, enqueued>>
    /\ kernel' = [kernel EXCEPT !.cleanups = @ + 1]
    /\ UNCHANGED <<raced, failed>>
    /\ UNCHANGED <<error_lock, t_err>>
    /\ ThreadStep

\* active.store(false), and the thread ends
T_Deactivate ==
    /\ t_pc = "deactivate"
    /\ active' = FALSE
    /\ t_pc' = "idle"
    /\ UNCHANGED <<snippets, error_msg, total_added, ring_lock, t_snippet, sock_open,
                   wsa_up, enqueued>>
    /\ UNCHANGED <<raced, failed, kernel>>
    /\ UNCHANGED <<error_lock, t_err>>
    /\ ThreadStep

\* sniffer_thread
SnifferThread ==
    \/ T_WSAStartup \/ T_LocalIp \/ T_Socket \/ T_Bind \/ T_Ioctl
    \/ T_Fail \/ T_SetError \/ T_Enter \/ T_Live
    \/ T_Check \/ T_Recv \/ T_Lock \/ T_Push \/ T_Count \/ T_Evict
    \/ T_Close \/ T_Cleanup \/ T_Deactivate

\* ---------------------------------------------------------------- the scenario monitor

\* what the monitor keeps of a snapshot: each row's key and state
Shape(conns) == [i \in DOMAIN conns |-> [key |-> Key(conns[i]), state |-> conns[i].state]]

Conn(raw) == Shape(<<ScenarioConn(raw)>>)

\* the end-to-end scenarios on a new tracker: new-then-closed (in each state of
\* the connection) and the state transition SYN_SENT, ESTABLISHED, CLOSE_WAIT
NewThenClosedRuns == {<<Conn(r), Conn(r), <<>>>> : r \in {3, 5, 8}}
StateTransitionRun == <<Conn(3), Conn(5), Conn(8)>>
ScenarioRuns == NewThenClosedRuns \cup {StateTransitionRun}

IsPrefix(a, b) == Len(a) <= Len(b) /\ a = SubSeq(b, 1, Len(a))

ScenarioOff == [on |-> FALSE, ticks |-> <<>>]

\* the monitor after an unpaused update was given conns: it follows the ticks
\* for as long as they are the beginning of a scenario
ScenarioAfter(conns) ==
    LET ticks == Append(scenario.ticks, Shape(conns))
    IN IF scenario.on /\ \E run \in ScenarioRuns : IsPrefix(ticks, run)
       THEN [on |-> TRUE, ticks |-> ticks]
       ELSE ScenarioOff

\* ---------------------------------------------------------------- actions

\* TrafficTracker::new(max_log_size), in App::new
InitTracker ==
    /\ connections = <<>>
    /\ prev_connections = EmptyMap
    /\ log = <<>>
    /\ max_log_size \in 0..MaxLogSize
    /\ auto_scroll = TRUE
    /\ scroll_offset = 0
    /\ filter_text = <<>>
    /\ paused = FALSE
    /\ conn_data = EmptyMap
    /\ hide_localhost = TRUE
    /\ op = "new"
    /\ emitted = <<>>
    /\ peak = 0
    /\ scenario = [on |-> TRUE, ticks |-> <<>>]
    /\ during_pause = {}

\* update from its first loop on: the diff of conns against prev_connections
DiffAndLog(conns, cache, order) ==
    LET current == CurrentMap(conns, cache)
        events == UpdateEvents(conns, cache, order, prev_connections, conn_data)
        closed == ClosedKeys(prev_connections, current)
        st == PushAll([log |-> log, scroll_offset |-> scroll_offset, peak |-> 0],
                      events, max_log_size, auto_scroll)
    IN /\ log' = st.log
       /\ scroll_offset' = st.scroll_offset
       /\ conn_data' = [k \in DOMAIN conn_data \ closed |-> conn_data[k]]
       /\ prev_connections' = current
       /\ UNCHANGED <<max_log_size, auto_scroll, filter_text, paused, hide_localhost>>
       /\ emitted' = events
       /\ peak' = st.peak
       /\ scenario' = ScenarioAfter(conns)
       /\ during_pause' = {}

\* (mutant) update without its `if self.paused { return; }`
TrackerUpdateWhilePaused(conns, cache, order) == DiffAndLog(conns, cache, order)

\* TrafficTracker::update(conns, cache) for one iteration order of prev_connections
TrackerUpdate(conns, cache, order) ==
    IF paused
    THEN /\ UNCHANGED trackerVars
         /\ emitted' = <<>>
         /\ peak' = 0
         /\ scenario' = scenario
         /\ during_pause' = during_pause \cup {Key(conns[i]) : i \in DOMAIN conns}
    ELSE DiffAndLog(conns, cache, order)

\* the snapshots App::update hands to the tracker: what fetch_connections
\* returned, with the hostnames resolve_dns attached, as sort_connections
\* leaves them
Given(records, cache) ==
    {SortConnections(AttachHostnames(rows, cache)) : rows \in Snapshots(records)}

\* the iteration orders of prev_connections over the keys conns closes
ClosingOrders(conns, cache) ==
    KeyOrders(ClosedKeys(prev_connections, CurrentMap(conns, cache)))

\* TrafficTracker::update, called with a snapshot of the given rows
Update(records, cache) ==
    \E conns \in Given(records, cache) :
        /\ op' = "update"
        /\ \E order \in ClosingOrders(conns, cache) : TrackerUpdate(conns, cache, order)
        /\ UNCHANGED <<connections, snifferVars, appVars>>

\* App::update from the fetch on: the snapshot becomes App.connections and the
\* tracker diffs it
Tick(records, cache) ==
    \E conns \in Given(records, cache) :
        /\ connections' = conns
        /\ op' = "update"
        /\ \E order \in ClosingOrders(conns, cache) : TrackerUpdate(conns, cache, order)
        /\ UNCHANGED <<snifferVars, appVars>>

\* handle_traffic_key, 'p'
TogglePause ==
    /\ paused' = ~paused
    /\ op' = "pause"
    /\ emitted' = <<>>
    /\ peak' = 0
    /\ UNCHANGED <<connections, prev_connections, log, max_log_size, auto_scroll,
                   scroll_offset, filter_text, conn_data, hide_localhost, scenario,
                   during_pause, snifferVars, appVars>>

\* (mutant) clear that also forgets the tracked connections
ClearForgets ==
    /\ log' = <<>>
    /\ scroll_offset' = 0
    /\ prev_connections' = EmptyMap
    /\ op' = "clear"
    /\ emitted' = <<>>
    /\ peak' = 0
    /\ scenario' = ScenarioOff
    /\ UNCHANGED <<connections, max_log_size, auto_scroll,
                   filter_text, paused, conn_data, hide_localhost, during_pause,
                   snifferVars, appVars>>

\* handle_traffic_key, 'c': TrafficTracker::clear
Clear ==
    /\ log' = <<>>
    /\ scroll_offset' = 0
    /\ op' = "clear"
    /\ emitted' = <<>>
    /\ peak' = 0
    /\ scenario' = ScenarioOff
    /\ UNCHANGED <<connections, prev_connections, max_log_size, auto_scroll,
                   filter_text, paused, conn_data, hide_localhost, during_pause,
                   snifferVars, appVars>>

\* a key handler that pushes no entry
NoEntries(name) ==
    /\ op' = name
    /\ emitted' = <<>>
    /\ peak' = 0
    /\ UNCHANGED <<snifferVars, appVars>>

\* The handlers below are those of the Traffic tab, which App::new selects
\* (bottom_tab = Traffic; the Tab key is not pressed).

\* handle_traffic_key, 'x'
ToggleHide ==
    /\ bottom_tab = "Traffic"
    /\ hide_localhost' = ~hide_localhost
    /\ NoEntries("key")
    /\ UNCHANGED <<connections, prev_connections, log, max_log_size, auto_scroll,
                   scroll_offset, filter_text, paused, conn_data, scenario, during_pause>>

\* handle_traffic_key, any other character: filter_text.push(ch)
FilterPush(ch) ==
    /\ Len(filter_text) < MaxFilter
    /\ filter_text' = Append(filter_text, ch)
    /\ NoEntries("key")
    /\ UNCHANGED <<connections, prev_connections, log, max_log_size, auto_scroll,
                   scroll_offset, paused, conn_data, hide_localhost, scenario,
                   during_pause>>

\* handle_traffic_key, Backspace: filter_text.pop()
FilterPop ==
    /\ filter_text' = IF filter_text = <<>> THEN <<>>
                      ELSE SubSeq(filter_text, 1, Len(filter_text) - 1)
    /\ NoEntries("key")
    /\ UNCHANGED <<connections, prev_connections, log, max_log_size, auto_scroll,
                   scroll_offset, paused, conn_data, hide_localhost, scenario,
                   during_pause>>

\* handle_traffic_key, Esc: filter_text.clear()
FilterClear ==
    /\ filter_text' = <<>>
    /\ NoEntries("key")
    /\ UNCHANGED <<connections, prev_connections, log, max_log_size, auto_scroll,
                   scroll_offset, paused, conn_data, hide_localhost, scenario,
                   during_pause>>

\* scroll_up(n): Up is n = 1, PageUp n = PageStep
ScrollUp(n) ==
    /\ auto_scroll' = FALSE
    /\ scroll_offset' = IF scroll_offset >= n THEN scroll_offset - n ELSE 0
    /\ NoEntries("key")
    /\ UNCHANGED <<connections, prev_connections, log, max_log_size, filter_text,
                   paused, conn_data, hide_localhost, scenario, during_pause>>

\* scroll_down(n): Down is n = 1, PageDown n = PageStep
ScrollDown(n) ==
    /\ scroll_offset + n <= MaxScroll
    /\ scroll_offset' = scroll_offset + n
    /\ auto_scroll' = IF scroll_offset + n >= Len(log) THEN TRUE ELSE auto_scroll
    /\ NoEntries("key")
    /\ UNCHANGED <<connections, prev_connections, log, max_log_size, filter_text,
                   paused, conn_data, hide_localhost, scenario, during_pause>>

\* scroll_home
ScrollHome ==
    /\ auto_scroll' = FALSE
    /\ scroll_offset' = 0
    /\ NoEntries("key")
    /\ UNCHANGED <<connections, prev_connections, log, max_log_size, filter_text,
                   paused, conn_data, hide_localhost, scenario, during_pause>>

\* scroll_end
ScrollEnd ==
    /\ auto_scroll' = TRUE
    /\ scroll_offset' = Len(log)
    /\ NoEntries("key")
    /\ UNCHANGED <<connections, prev_connections, log, max_log_size, filter_text,
                   paused, conn_data, hide_localhost, scenario, during_pause>>

\* the counts recent is called with
RecentCounts == {0, 2, 10}

\* ---------------------------------------------------------------- types.rs: SpeedHistory

\* a speed: bytes over seconds (the f64 quotient dr / elapsed, kept exact)
Speed(bytes, secs) == [bytes |-> bytes, secs |-> secs]

\* 0.0
ZeroSpeed == Speed(0, 1)

\* a > b on speeds
SpeedGt(a, b) == a.bytes * b.secs > b.bytes * a.secs

\* vec![0.0; n]
Zeros(n) == [i \in 1..n |-> ZeroSpeed]

\* SpeedHistory::new(max_points)
SpeedHistoryNew(max_points) ==
    [download |-> Zeros(max_points), upload |-> Zeros(max_points),
     max_points |-> max_points]

\* (mutant) push without its pop_front
PushUncapped(q, x, max_points) == Append(q, x)

\* push_back, then pop_front if the deque is longer than max_points
PushCapped(q, x, max_points) ==
    LET pushed == Append(q, x)
    IN IF Len(pushed) > max_points THEN Tail(pushed) ELSE pushed

\* SpeedHistory::push(down, up)
SpeedHistoryPush(h, down, up) ==
    [h EXCEPT !.download = PushCapped(@, down, h.max_points),
              !.upload = PushCapped(@, up, h.max_points)]

\* ---------------------------------------------------------------- app.rs: dns_tick

\* a u32 as its 16-bit halves: the value is hi * 65536 + lo
U32(hi, lo) == [hi |-> hi, lo |-> lo]

\* u32::wrapping_add(1)
WrappingInc(t) ==
    IF t.lo < 65535 THEN [t EXCEPT !.lo = @ + 1]
    ELSE IF t.hi < 65535 THEN U32(t.hi + 1, 0)
    ELSE U32(0, 0)

\* t % 10 on the halves
RemTen(t) == ((t.hi % 10) * (65536 % 10) + (t.lo % 10)) % 10

\* `self.dns_tick % 10 == 0`: this tick reads the ipconfig output
FallbackDue(t) == RemTen(t) = 0

\* the values of dns_tick a behaviour starts at: 0, 9 (one tick before the
\* second reading of ipconfig) and 2^32 - 3
StartTicks == {U32(0, 0), U32(0, 9), U32(65535, 65533)}

\* ---------------------------------------------------------------- app.rs: resolve_dns, the cache

\* (mutant) the merge with insert in place of entry().or_insert_with()
MergeOver(cache, src) ==
    [ip \in DOMAIN cache \cup DOMAIN src |->
        IF ip \in DOMAIN src THEN Some(src[ip]) ELSE cache[ip]]

\* for (ip, hostname) in src { cache.entry(ip).or_insert_with(|| Some(hostname)) }
MergeInto(cache, src) ==
    [ip \in DOMAIN cache \cup DOMAIN src |->
        IF ip \in DOMAIN cache THEN cache[ip] ELSE Some(src[ip])]

\* the cache after the two merges of resolve_dns: os is what
\* read_dns_cache_api returned, ipc what read_dns_cache_ipconfig returns
ResolvedCache(cache, tick, os, ipc) ==
    LET fast == MergeInto(cache, os)
    IN IF FallbackDue(tick) THEN MergeInto(fast, ipc) ELSE fast

\* ---------------------------------------------------------------- app.rs: App::update

\* u64::saturating_sub
SaturatingSub(a, b) == IF a >= b THEN a - b ELSE 0

\* (mutant) the deltas taken with a plain subtraction
SpeedUpdateSigned(recv, sent, elapsed) ==
    /\ current_down_speed' = Speed(recv - prev_bytes_recv, elapsed)
    /\ current_up_speed' = Speed(sent - prev_bytes_sent, elapsed)
    /\ total_down' = total_down + (recv - prev_bytes_recv)
    /\ total_up' = total_up + (sent - prev_bytes_sent)
    /\ peak_down' = IF SpeedGt(current_down_speed', peak_down)
                    THEN current_down_speed' ELSE peak_down
    /\ peak_up' = IF SpeedGt(current_up_speed', peak_up)
                  THEN current_up_speed' ELSE peak_up
    /\ speed_history' = SpeedHistoryPush(speed_history, current_down_speed',
                                         current_up_speed')
    /\ prev_bytes_recv' = recv
    /\ prev_bytes_sent' = sent

\* the speed part of App::update: recv and sent are the counters
\* get_network_bytes returned, elapsed the seconds since prev_time
SpeedUpdate(recv, sent, elapsed) ==
    /\ IF elapsed > 0
       THEN /\ current_down_speed' = Speed(SaturatingSub(recv, prev_bytes_recv), elapsed)
            /\ current_up_speed' = Speed(SaturatingSub(sent, prev_bytes_sent), elapsed)
            /\ total_down' = total_down + SaturatingSub(recv, prev_bytes_recv)
            /\ total_up' = total_up + SaturatingSub(sent, prev_bytes_sent)
            /\ peak_down' = IF SpeedGt(current_down_speed', peak_down)
                            THEN current_down_speed' ELSE peak_down
            /\ peak_up' = IF SpeedGt(current_up_speed', peak_up)
                          THEN current_up_speed' ELSE peak_up
            /\ speed_history' = SpeedHistoryPush(speed_history, current_down_speed',
                                                 current_up_speed')
       ELSE UNCHANGED <<current_down_speed, current_up_speed, total_down, total_up,
                        peak_down, peak_up, speed_history>>
    /\ prev_bytes_recv' = recv
    /\ prev_bytes_sent' = sent

\* the fields App::new gives the speed monitor; the counters are those
\* get_network_bytes returns at construction
InitSpeed ==
    /\ speed_history \in {SpeedHistoryNew(n) : n \in 0..MaxPoints}
    /\ current_down_speed = ZeroSpeed
    /\ current_up_speed = ZeroSpeed
    /\ peak_down = ZeroSpeed
    /\ peak_up = ZeroSpeed
    /\ total_down = 0
    /\ total_up = 0
    /\ prev_bytes_recv \in RecvCounts
    /\ prev_bytes_sent \in SentCounts
    /\ reads = [recv |-> <<prev_bytes_recv>>, sent |-> <<prev_bytes_sent>>]

\* the DNS fields: App::new leaves the cache empty and dns_tick at 0; the
\* other values of dns_tick are those it has after that many ticks on a
\* machine with no connection, empty OS caches and idle interfaces
InitDns ==
    /\ dns_cache = EmptyMap
    /\ dns_tick \in StartTicks
    /\ wraps = 0
    /\ dns_seen = [os |-> EmptyMap, fallback |-> None]
    /\ probe = NoProbe

\* App::update: the counters, the fetched table and the two readings of the OS
\* DNS cache are the tick's inputs (the ipconfig reading is only taken when due)
AppUpdate(most, recvs, sents, elapseds, tables, sources) ==
    /\ Len(reads.recv) <= most
    /\ \E recv \in recvs, sent \in sents, elapsed \in elapseds :
        /\ SpeedUpdate(recv, sent, elapsed)
        /\ reads' = [recv |-> Append(reads.recv, recv), sent |-> Append(reads.sent, sent)]
    /\ \E rows \in tables, os \in sources,
          ipc \in IF FallbackDue(dns_tick) THEN sources ELSE {EmptyMap} :
        LET cache == ResolvedCache(dns_cache, dns_tick, os, ipc)
            conns == SortConnections(AttachHostnames(rows, cache))
        IN /\ dns_cache' = cache
           /\ dns_tick' = WrappingInc(dns_tick)
           /\ wraps' = IF dns_tick = U32(65535, 65535) THEN wraps + 1 ELSE wraps
           /\ dns_seen' = [os |-> os,
                           fallback |-> IF FallbackDue(dns_tick) THEN Some(ipc) ELSE None]
           /\ connections' = conns
           /\ op' = "update"
           /\ \E order \in ClosingOrders(conns, cache) : TrackerUpdate(conns, cache, order)
    /\ UNCHANGED <<snifferVars, probe, pid_cache, fetched, bottom_tab, show_listen,
                   hide_localhost_conn,
                   sort_column, sort_ascending>>

\* ---------------------------------------------------------------- the helper functions

\* the App beside a call of a helper function
AppAside ==
    UNCHANGED <<connections, trackerVars, histVars, snifferVars, speed_history,
                current_down_speed, current_up_speed, peak_down, peak_up, total_down,
                total_up, prev_bytes_recv, prev_bytes_sent, dns_cache, dns_tick, wraps,
                reads, dns_seen, pid_cache, fetched, bottom_tab, show_listen,
                hide_localhost_conn,
                sort_column, sort_ascending>>

\* a row with the given ports: of the TCP table if it has a remote port, of
\* the UDP table if it has none
PortsRow(lp, rp) ==
    IF rp = None THEN UdpRow(<<10, 0, 0, 1>>, lp, 1000, "chrome.exe")
    ELSE TcpRow(<<10, 0, 0, 1>>, lp, GoogleIp, rp[1], 5, 1000, "chrome.exe")

\* Connection::is_outbound called on a row
CallIsOutbound(lp, rp) ==
    /\ probe' = [name |-> "is_outbound", arg |-> PortsRow(lp, rp),
                 result |-> IsOutbound(PortsRow(lp, rp))]
    /\ AppAside

\* get_process_name called by fetch_connections
CallGetProcessName(pid, opened, image) ==
    /\ probe' = [name |-> "get_process_name",
                 arg |-> [pid |-> pid, opened |-> opened, image |-> image],
                 result |-> GetProcessName(pid, opened, image)]
    /\ AppAside

\* ntohs called on the port field of a row of the OS table
CallNtohs(port) ==
    /\ probe' = [name |-> "ntohs", arg |-> port, result |-> Ntohs(port)]
    /\ AppAside

\* ---------------------------------------------------------------- connections.rs: the four tables

\* an established connection between two IPv6 hosts (addresses as their eight
\* 16-bit groups), as fetch_tcp6 builds it
Tcp6Conn ==
    [proto |-> "Tcp", local_addr |-> <<8193, 3512, 0, 0, 0, 0, 0, 1>>, local_port |-> 55200,
     remote_addr |-> Some(<<8193, 3512, 0, 0, 0, 0, 0, 2>>), remote_port |-> Some(443),
     state |-> Some(FromRaw(5)), pid |-> 2000, process_name |-> "node.exe",
     dns_hostname |-> None]

\* a bound IPv6 UDP socket, as fetch_udp6 builds it
Udp6Bind ==
    [proto |-> "Udp", local_addr |-> <<0, 0, 0, 0, 0, 0, 0, 0>>, local_port |-> 5353,
     remote_addr |-> None, remote_port |-> None,
     state |-> None, pid |-> 3000, process_name |-> "svchost.exe",
     dns_hostname |-> None]

\* the kernel's sockets, the same at every tick, by the table that lists them
TableNames == <<"tcp4", "tcp6", "udp4", "udp6">>
KernelTables ==
    [tcp4 |-> <<ScenarioConn(5)>>, tcp6 |-> <<Tcp6Conn>>,
     udp4 |-> <<UdpBind>>, udp6 |-> <<Udp6Bind>>]

\* fetch_tcp4, fetch_tcp6, fetch_udp4, fetch_udp6: the rows a table read
\* pushes, none when the second call returns non-zero
FetchTable(name, lost) == IF name \in lost THEN <<>> ELSE KernelTables[name]

\* fetch_connections: the four reads one after the other
FetchTables(lost) ==
    FetchTable("tcp4", lost) \o FetchTable("tcp6", lost)
        \o FetchTable("udp4", lost) \o FetchTable("udp6", lost)

\* at most one of the four reads fails at a tick
Failures == {{}} \cup {{TableNames[i]} : i \in DOMAIN TableNames}

\* the failures of the tick before, None before the first tick
FailedBefore == IF probe.name = "fetch_connections" THEN Some(probe.arg.failed) ELSE None

\* App::update from the fetch on, the kernel's sockets being KernelTables:
\* fetch_connections, resolve_dns, sort_connections, TrafficTracker::update
TickTables ==
    \E lost \in Failures :
        LET conns == SortConnections(AttachHostnames(FetchTables(lost), GoogleCache))
        IN /\ connections' = conns
           /\ op' = "update"
           /\ probe' = [name |-> "fetch_connections",
                        arg |-> [failed |-> lost, before |-> FailedBefore],
                        result |-> conns]
           /\ \E order \in ClosingOrders(conns, GoogleCache) :
                  TrackerUpdate(conns, GoogleCache, order)
           /\ UNCHANGED <<snifferVars, speed_history, current_down_speed,
                          current_up_speed, peak_down, peak_up, total_down, total_up,
                          prev_bytes_recv, prev_bytes_sent, dns_cache, dns_tick, wraps,
                          reads, dns_seen, pid_cache, fetched, bottom_tab, show_listen,
                          hide_localhost_conn, sort_column, sort_ascending>>

\* ---------------------------------------------------------------- the two views

\* handle_key, Tab: bottom_tab.next()
TabKey ==
    /\ bottom_tab' = IF bottom_tab = "Traffic" THEN "Connections" ELSE "Traffic"
    /\ op' = "key"
    /\ emitted' = <<>>
    /\ peak' = 0
    /\ UNCHANGED <<connections, trackerVars, scenario, during_pause, snifferVars,
                   speed_history, current_down_speed, current_up_speed, peak_down,
                   peak_up, total_down, total_up, prev_bytes_recv, prev_bytes_sent,
                   dns_cache, dns_tick, wraps, reads, dns_seen, probe, pid_cache,
                   fetched, show_listen, hide_localhost_conn,
                   sort_column, sort_ascending>>

\* handle_connections_key, 'x'
ToggleHideConn ==
    /\ bottom_tab = "Connections"
    /\ hide_localhost_conn' = ~hide_localhost_conn
    /\ op' = "key"
    /\ emitted' = <<>>
    /\ peak' = 0
    /\ UNCHANGED <<connections, trackerVars, scenario, during_pause, snifferVars,
                   speed_history, current_down_speed, current_up_speed, peak_down,
                   peak_up, total_down, total_up, prev_bytes_recv, prev_bytes_sent,
                   dns_cache, dns_tick, wraps, reads, dns_seen, probe, pid_cache,
                   fetched, bottom_tab, show_listen,
                   sort_column, sort_ascending>>

\* handle_connections_key, 'l'
ToggleListen ==
    /\ bottom_tab = "Connections"
    /\ show_listen' = ~show_listen
    /\ op' = "key"
    /\ emitted' = <<>>
    /\ peak' = 0
    /\ UNCHANGED <<connections, trackerVars, scenario, during_pause, snifferVars,
                   speed_history, current_down_speed, current_up_speed, peak_down,
                   peak_up, total_down, total_up, prev_bytes_recv, prev_bytes_sent,
                   dns_cache, dns_tick, wraps, reads, dns_seen, probe, pid_cache,
                   fetched, bottom_tab, hide_localhost_conn,
                   sort_column, sort_ascending>>

\* remote_addr.map(|a| a.is_loopback()).unwrap_or(false)
RemoteIsLoopback(x) == x.remote_addr # None /\ IsLoopback(x.remote_addr[1])

\* the closure of App::filtered_connections, with App.filter_text empty as
\* App::new leaves it (no character is typed on the Connections tab): the
\* loopback test under hide_localhost_conn, then the LISTEN test under
\* !show_listen
KeptConnection(c) ==
    IF hide_localhost_conn /\ IsLoopback(c.local_addr) /\ RemoteIsLoopback(c)
    THEN FALSE
    ELSE IF ~show_listen /\ c.state = Some(Listen)
         THEN FALSE
         ELSE TRUE

\* App::filtered_connections
FilteredConnections == SelectSeq(connections, KeptConnection)

\* the closure of draw_traffic's localhost filter
KeptEntry(e) == ~IsLoopback(e.local_addr) /\ ~RemoteIsLoopback(e)

\* draw_traffic: the localhost filter over what filtered_log returned
LocalhostFilter(filtered) ==
    IF hide_localhost THEN SelectSeq(filtered, KeptEntry) ELSE filtered

\* ---------------------------------------------------------------- app.rs: toggle_sort

\* the rows of the ticks that show the sort: equal and different keys in
\* every column, one connection the tracker follows
SortRecords == {ScenarioConn(5), ListenAny, UdpBind, LoopListen}

MaxSort == 3

\* the columns toggle_sort is called with: the key handler passes 6, 3, 4, 5
\* and 2; 0, 1 and 7 are the other arms of sort_connections
SortColumns == 0..7

\* App::toggle_sort(col) on an App with the given list, column and direction,
\* the sort it ends with included
ToggleSortOf(app, col) ==
    LET column == IF app.sort_column = col THEN app.sort_column ELSE col
        asc == IF app.sort_column = col THEN ~app.sort_ascending ELSE TRUE
    IN [connections |-> SortBy(app.connections, column, asc),
        sort_column |-> column, sort_ascending |-> asc]

\* App::sort_connections on the same
SortConnectionsOf(app) ==
    [app EXCEPT !.connections = SortBy(app.connections, app.sort_column, app.sort_ascending)]

\* the Apps the two methods are called on: any list of SortRecords, as
\* fetch_connections and resolve_dns leave it, under any column and direction
SortApps ==
    {[connections |-> AttachHostnames(rows, GoogleCache), sort_column |-> col,
      sort_ascending |-> asc] :
        rows \in SeqsUpTo(SortRecords, MaxSort), col \in SortColumns, asc \in BOOLEAN}

\* App::update: sort_connections() on the list of the tick
CallSortConnections ==
    /\ probe.name = "app"
    /\ probe' = [name |-> "sort_connections", arg |-> probe.arg,
                 result |-> SortConnectionsOf(probe.arg.app)]
    /\ AppAside

\* handle_connections_key: toggle_sort(col)
CallToggleSort(col) ==
    /\ probe.name = "app"
    /\ probe' = [name |-> "toggle_sort", arg |-> [app |-> probe.arg.app, col |-> col],
                 result |-> ToggleSortOf(probe.arg.app, col)]
    /\ AppAside

\* ---------------------------------------------------------------- connections.rs: fetch_connections

\* no fetch_connections yet
NoFetch == [conns |-> <<>>, unresolved |-> <<>>, lookups |-> <<>>]

\* App::new: sort_column: 5, sort_ascending: true, show_listen: true,
\* bottom_tab: BottomTab::Traffic, hide_localhost_conn: true
InitTabs ==
    /\ sort_column = 5
    /\ sort_ascending = TRUE
    /\ bottom_tab = "Traffic"
    /\ show_listen = TRUE
    /\ hide_localhost_conn = TRUE

\* App::new: PidCache::new()
InitPids ==
    /\ pid_cache = EmptyMap
    /\ fetched = NoFetch

\* a row as fetch_tcp4 pushes it: process_name is String::new()
RawRow(pid) == TcpRow(<<10, 0, 0, 1>>, 55123, GoogleIp, 443, 5, pid, "")

\* the tables the four fetches may gather: none, one or several rows of a PID
PidTables ==
    {<<>>,
     <<RawRow(1000)>>,
     <<RawRow(1000), RawRow(1000)>>,
     <<RawRow(0), RawRow(2000)>>,
     <<RawRow(1000), RawRow(2000), RawRow(1000)>>}

\* what OpenProcess and QueryFullProcessImageNameW may answer to one call of
\* get_process_name, and what sysinfo may know of a process
ApiAnswers == {[opened |-> FALSE, image |-> None]}
                  \cup {[opened |-> TRUE, image |-> Some(path)] : path \in ImagePaths}
SysinfoNames == {None, Some("chrome.exe"), Some("chrome")}

\* conns.iter().map(|c| c.pid).filter(|pid| !pid_cache.contains_key(pid))
Unresolved(conns, cache) ==
    LET pids == [i \in DOMAIN conns |-> conns[i].pid]
        NotCached(pid) == pid \notin DOMAIN cache
    IN SelectSeq(pids, NotCached)

\* HashMap::insert
Insert(cache, pid, name) ==
    [p \in DOMAIN cache \cup {pid} |-> IF p = pid THEN name ELSE cache[p]]

\* (mutant) the first loop with the placeholders cached like names
ApiLoopCachesAll(unresolved, answers, i, st) ==
    IF i > Len(unresolved)
    THEN st
    ELSE LET pid == unresolved[i]
             name == GetProcessName(pid, answers[i].opened, answers[i].image).name
         IN [cache |-> Insert(st.cache, pid, name),
             needs_sysinfo |-> st.needs_sysinfo,
             lookups |-> Append(st.lookups,
                                [pid |-> pid, by |-> "get_process_name",
                                 cached |-> pid \in DOMAIN st.cache,
                                 was |-> IF pid \in DOMAIN st.cache
                                         THEN Some(st.cache[pid]) ELSE None,
                                 name |-> Some(name)])]

\* for &pid in &unresolved: get_process_name, then the cache or needs_sysinfo;
\* st holds the cache, needs_sysinfo and, as history, the lookups made: the
\* PID, whether and with what name it was cached when the lookup was made,
\* and the name the lookup stored (None if it stored none)
RECURSIVE ApiLoop(_, _, _, _)
ApiLoop(unresolved, answers, i, st) ==
    IF i > Len(unresolved)
    THEN st
    ELSE LET pid == unresolved[i]
             name == GetProcessName(pid, answers[i].opened, answers[i].image).name
             look == [pid |-> pid, by |-> "get_process_name",
                      cached |-> pid \in DOMAIN st.cache,
                      was |-> IF pid \in DOMAIN st.cache THEN Some(st.cache[pid]) ELSE None,
                      name |-> IF StartsWithPid(name) THEN None ELSE Some(name)]
         IN ApiLoop(unresolved, answers, i + 1,
                    IF StartsWithPid(name)
                    THEN [cache |-> st.cache,
                          needs_sysinfo |-> Append(st.needs_sysinfo, pid),
                          lookups |-> Append(st.lookups, look)]
                    ELSE [cache |-> Insert(st.cache, pid, name),
                          needs_sysinfo |-> st.needs_sysinfo,
                          lookups |-> Append(st.lookups, look)])

\* for &pid in &needs_sysinfo: sys.process(pid), cached if there is one
RECURSIVE SysinfoLoop(_, _, _, _)
SysinfoLoop(needs_sysinfo, sys, i, st) ==
    IF i > Len(needs_sysinfo)
    THEN st
    ELSE LET pid == needs_sysinfo[i]
             look == [pid |-> pid, by |-> "sysinfo",
                      cached |-> pid \in DOMAIN st.cache,
                      was |-> IF pid \in DOMAIN st.cache THEN Some(st.cache[pid]) ELSE None,
                      name |-> sys[pid]]
         IN SysinfoLoop(needs_sysinfo, sys, i + 1,
                        [cache |-> IF sys[pid] # None
                                   THEN Insert(st.cache, pid, sys[pid][1])
                                   ELSE st.cache,
                         needs_sysinfo |-> st.needs_sysinfo,
                         lookups |-> Append(st.lookups, look)])

\* for conn in &mut conns: the cached name, or the placeholder unless pid is 0
AttachNames(conns, cache) ==
    [i \in DOMAIN conns |->
        IF conns[i].pid \in DOMAIN cache
        THEN [conns[i] EXCEPT !.process_name = cache[conns[i].pid]]
        ELSE IF conns[i].pid # 0
             THEN [conns[i] EXCEPT !.process_name = Placeholder(conns[i].pid)]
             ELSE conns[i]]

\* the PIDs of a sequence
PidsIn(pids) == {pids[i] : i \in DOMAIN pids}

\* fetch_connections(&mut self.pid_cache)
FetchConnections ==
    \E conns \in PidTables :
        LET unresolved == Unresolved(conns, pid_cache)
        IN \E answers \in [DOMAIN unresolved -> ApiAnswers] :
            LET api == ApiLoop(unresolved, answers, 1,
                               [cache |-> pid_cache, needs_sysinfo |-> <<>>,
                                lookups |-> <<>>])
            IN \E sys \in [PidsIn(api.needs_sysinfo) -> SysinfoNames] :
                LET done == SysinfoLoop(api.needs_sysinfo, sys, 1, api)
                IN /\ pid_cache' = done.cache
                   /\ fetched' = [conns |-> AttachNames(conns, done.cache),
                                  unresolved |-> unresolved,
                                  lookups |-> done.lookups]
                   /\ UNCHANGED <<connections, trackerVars, histVars, snifferVars,
                                  speed_history, current_down_speed, current_up_speed,
                                  peak_down, peak_up, total_down, total_up,
                                  prev_bytes_recv, prev_bytes_sent, dns_cache, dns_tick,
                                  wraps, reads, dns_seen, probe, bottom_tab,
                                  show_listen, hide_localhost_conn,
                                  sort_column, sort_ascending>>

\* ---------------------------------------------------------------- sniffer.rs: extract_best_snippet

\* bytes 0x20..0x7E
IsPrintable(byte) == byte >= 32 /\ byte <= 126

\* b'\r', b'\n', b'\t'
IsLineByte(byte) == byte \in {13, 10, 9}

\* is_text of the scan for runs
IsText(byte) == IsPrintable(byte) \/ IsLineByte(byte)

\* u8::is_ascii_alphanumeric
IsAsciiAlphanumeric(b) == b \in (48..57) \cup (65..90) \cup (97..122)

\* the characters counted by the score of a run: alphanumeric, ' ', '/', ':',
\* '.', ',', '-', '=', '\n', '\r'
ScoreChar(b) == IsAsciiAlphanumeric(b) \/ b \in {32, 47, 58, 46, 44, 45, 61, 10, 13}

\* the characters counted by the readability check: those of the score and
\* '_', '?', '&', '"', '\'', '{', '}', '[', ']'
ReadableChar(b) == ScoreChar(b) \/ b \in {95, 63, 38, 34, 39, 123, 125, 91, 93}

\* one turn of the scan, at the byte of index i (from 0): st holds run_start
\* and runs, a run is <<start, end>> with end excluded
ScanStep(data, i, st) ==
    LET is_text == IsText(data[i + 1])
    IN IF is_text /\ st.run_start = None
       THEN [st EXCEPT !.run_start = Some(i)]
       ELSE IF ~is_text /\ st.run_start # None
            THEN [run_start |-> None,
                  runs |-> IF i - st.run_start[1] >= 6
                           THEN Append(st.runs, <<st.run_start[1], i>>)
                           ELSE st.runs]
            ELSE st

\* the turns of the scan for the indices lo..hi in their order (the range is
\* halved, and st looked at before its turns, to keep the evaluation shallow)
RECURSIVE ScanRange(_, _, _, _)
ScanRange(data, lo, hi, st) ==
    IF lo > hi \/ Len(st.runs) > Len(data) THEN st
    ELSE IF lo = hi THEN ScanStep(data, lo, st)
    ELSE LET mid == (lo + hi) \div 2
         IN ScanRange(data, mid + 1, hi, ScanRange(data, lo, mid, st))

\* the runs of printable ASCII of at least 6 bytes
Runs(data) ==
    LET st == ScanRange(data, 0, Len(data) - 1, [run_start |-> None, runs |-> <<>>])
    IN IF st.run_start # None /\ Len(data) - st.run_start[1] >= 6
       THEN Append(st.runs, <<st.run_start[1], Len(data)>>)
       ELSE st.runs

\* &data[start..end]
Slice(data, run) == SubSeq(data, run[1] + 1, run[2])

\* the score's text_chars: slice.iter().filter(..).count()
ScoreCount(slice) == Cardinality({i \in DOMAIN slice : ScoreChar(slice[i])})

\* the readability test's text_chars: best_slice.iter().filter(..).count()
ReadableCount(slice) == Cardinality({i \in DOMAIN slice : ReadableChar(slice[i])})

Max(a, b) == IF a >= b THEN a ELSE b

\* the key of max_by_key: len * ratio
RunScore(data, run) ==
    LET slice == Slice(data, run)
        len == Len(slice)
        text_chars == ScoreCount(slice)
        ratio == (text_chars * 100) \div Max(len, 1)
    IN len * ratio

\* runs.iter().max_by_key(..): the last of the runs of the highest score
BestRun(data, runs) ==
    LET best == CHOOSE i \in DOMAIN runs :
                    \A j \in DOMAIN runs :
                        \/ RunScore(data, runs[j]) < RunScore(data, runs[i])
                        \/ RunScore(data, runs[j]) = RunScore(data, runs[i]) /\ j <= i
    IN runs[best]

\* " | "
Separator == <<32, 124, 32>>

\* one turn of the loop that formats the snippet, at the byte of index i
\* (from 1): st holds result and last_was_ws; once result has max_len
\* characters the loop is left, and no later turn runs
RenderStep(slice, i, st, max_len) ==
    IF Len(st.result) >= max_len
    THEN st
    ELSE LET byte == slice[i]
         IN IF IsPrintable(byte)
            THEN [result |-> Append(st.result, byte), last_was_ws |-> FALSE]
            ELSE IF IsLineByte(byte) /\ ~st.last_was_ws
                 THEN [result |-> st.result \o Separator, last_was_ws |-> TRUE]
                 ELSE st

\* the turns for the indices lo..hi in their order
RECURSIVE RenderRange(_, _, _, _, _)
RenderRange(slice, lo, hi, st, max_len) ==
    IF lo > hi \/ Len(st.result) >= max_len THEN st
    ELSE IF lo = hi THEN RenderStep(slice, lo, st, max_len)
    ELSE LET mid == (lo + hi) \div 2
         IN RenderRange(slice, mid + 1, hi, RenderRange(slice, lo, mid, st, max_len),
                        max_len)

\* the display string before it is trimmed
Render(slice, max_len) ==
    RenderRange(slice, 1, Len(slice), [result |-> <<>>, last_was_ws |-> FALSE],
                max_len).result

\* s ends with pat
EndsWith(s, pat) ==
    Len(s) >= Len(pat) /\ SubSeq(s, Len(s) - Len(pat) + 1, Len(s)) = pat

\* (mutant) no trailing separator is removed
TrimEndMatchesNothing(s, pat) == s

\* str::trim_end_matches(pat): the pattern is removed from the end as often as
\* it is there
RECURSIVE TrimEndMatches(_, _)
TrimEndMatches(s, pat) ==
    IF pat # <<>> /\ EndsWith(s, pat)
    THEN TrimEndMatches(SubSeq(s, 1, Len(s) - Len(pat)), pat)
    ELSE s

\* char::is_whitespace, on ASCII
IsWhitespace(c) == c \in (9..13) \cup {32}

RECURSIVE TrimEnd(_)
TrimEnd(s) ==
    IF s # <<>> /\ IsWhitespace(s[Len(s)]) THEN TrimEnd(SubSeq(s, 1, Len(s) - 1)) ELSE s

RECURSIVE TrimStart(_)
TrimStart(s) ==
    IF s # <<>> /\ IsWhitespace(s[1]) THEN TrimStart(SubSeq(s, 2, Len(s))) ELSE s

\* str::trim
Trim(s) == TrimStart(TrimEnd(s))

\* extract_best_snippet; the text is the sequence of its characters' codes
ExtractBestSnippet(data, max_len) ==
    LET runs == Runs(data)
    IN IF runs = <<>>
       THEN <<>>
       ELSE LET slice == Slice(data, BestRun(data, runs))
                text_chars == ReadableCount(slice)
                ratio == (text_chars * 100) \div Max(Len(slice), 1)
            IN IF ratio < 40
               THEN <<>>
               ELSE Trim(TrimEndMatches(Render(slice, max_len), Separator))

\* ---------------------------------------------------------------- sniffer.rs: parse_packet

\* (byte >> 4) & 0xF and byte & 0xF
HighNibble(byte) == (byte \div 16) % 16
LowNibble(byte) == byte % 16

\* (mutant) the two bytes of a port taken low byte first
FromLeBytes(b) == b[2] * 256 + b[1]

\* u16::from_be_bytes
FromBeBytes(b) == b[1] * 256 + b[2]

\* u32::from_ne_bytes on the program's targets (Windows, little-endian): the
\* first byte is the lowest
FromNeBytes(b) == U32(b[4] * 256 + b[3], b[2] * 256 + b[1])

\* (mutant) no packet skipped for its addresses
BothAnywhere(src_ip, dst_ip) == FALSE

\* src_ip.is_loopback() && dst_ip.is_loopback()
BothLoopback(src_ip, dst_ip) == IsLoopback(src_ip) /\ IsLoopback(dst_ip)

\* the max_len parse_packet passes to extract_best_snippet
SnippetMax == 200

\* parse_packet; pkt[i + 1] here is pkt[i] there, the timestamp is left out
ParsePacket(pkt, local_ip) ==
    IF Len(pkt) < 20
    THEN None
    ELSE
    LET version == HighNibble(pkt[1])
        ihl == LowNibble(pkt[1]) * 4
        protocol == pkt[10]
        src_ip_bytes == <<pkt[13], pkt[14], pkt[15], pkt[16]>>
        dst_ip_bytes == <<pkt[17], pkt[18], pkt[19], pkt[20]>>
    IN
    IF version # 4 THEN None
    ELSE IF Len(pkt) < ihl THEN None
    ELSE IF BothLoopback(src_ip_bytes, dst_ip_bytes) THEN None
    ELSE IF protocol \notin {6, 17} THEN None
    ELSE IF Len(pkt) < ihl + (IF protocol = 6 THEN 20 ELSE 8) THEN None
    ELSE
    LET sp == FromBeBytes(<<pkt[ihl + 1], pkt[ihl + 2]>>)
        dp == FromBeBytes(<<pkt[ihl + 3], pkt[ihl + 4]>>)
        payload_offset == IF protocol = 6
                          THEN ihl + HighNibble(pkt[ihl + 13]) * 4
                          ELSE ihl + 8
    IN
    IF payload_offset >= Len(pkt) THEN None
    ELSE
    LET payload == SubSeq(pkt, payload_offset + 1, Len(pkt))
        snippet == ExtractBestSnippet(payload, SnippetMax)
    IN
    IF snippet = <<>> THEN None
    ELSE Some([direction |-> IF FromNeBytes(src_ip_bytes) = local_ip
                             THEN "Outbound" ELSE "Inbound",
               src_ip |-> src_ip_bytes,
               dst_ip |-> dst_ip_bytes,
               src_port |-> sp,
               dst_port |-> dp,
               protocol |-> IF protocol = 6 THEN "Tcp" ELSE "Udp",
               snippet |-> snippet,
               payload_size |-> Len(payload)])

\* ---------------------------------------------------------------- the packets received

\* n bytes of one value
Run(byte, n) == [i \in 1..n |-> byte]

\* the address get_local_ipv4 returned, to which the socket is bound
BoundAddr == <<192, 168, 1, 10>>

\* "GET / HTTP/1.1\r\n"
HttpPayload == <<71, 69, 84, 32, 47, 32, 72, 84, 84, 80, 47, 49, 46, 49, 13, 10>>

\* bytes outside the printable range, and printable bytes that are no text
\* ("#$%#$%#$%")
BinaryPayload == <<200, 1, 255, 3, 128, 7, 250, 0>>
NoisePayload == <<35, 36, 37, 35, 36, 37, 35, 36, 37>>

PacketPayloads == {<<>>, HttpPayload, BinaryPayload, NoisePayload}

\* an IP packet: the header with its first byte vihl (version and IHL), the
\* options the IHL announces, then a TCP header with the data-offset byte off
\* and its options, or the 8 bytes of a UDP (or other) header, then the payload
Packet(vihl, protocol, src, dst, sp, dp, off, payload) ==
    <<vihl, 0, 0, 0, 0, 0, 0, 0, 64, protocol, 0, 0>> \o src \o dst
        \o Run(0, Max(LowNibble(vihl) - 5, 0) * 4)
        \o <<sp \div 256, sp % 256, dp \div 256, dp % 256>>
        \o (IF protocol = 6
            THEN Run(0, 8) \o <<off, 24, 0, 0, 0, 0, 0, 0>>
                     \o Run(0, Max(HighNibble(off) - 5, 0) * 4)
            ELSE <<0, 0, 0, 0>>)
        \o payload

\* 0x45, 0x46: IPv4 with and without options; 0x65: version 6
FirstBytes == {69, 70, 101}
Protocols == {1, 6, 17}
AddressPairs ==
    {<<BoundAddr, GoogleIp>>, <<GoogleIp, BoundAddr>>, <<LoopIp, LoopIp>>,
     <<LoopIp, BoundAddr>>}
PortPairs == {<<50000, 443>>, <<53, 50000>>}
\* data offsets 5, 6 and 0
DataOffsets == {80, 96, 0}

WholePackets ==
    {Packet(vihl, protocol, ips[1], ips[2], ports[1], ports[2], off, payload) :
        vihl \in FirstBytes, protocol \in Protocols, ips \in AddressPairs,
        ports \in PortPairs, off \in DataOffsets, payload \in PacketPayloads}

\* what recv may leave in the buffer: a packet, whole or cut short
Packets ==
    UNION {{SubSeq(p, 1, n) : n \in {19, 27, 39, Len(p)} \cap (0..Len(p))} : p \in WholePackets}

\* the payloads extract_best_snippet is given: a run of 'a' around the limit
\* of 200, after and before line breaks, blanks and other bytes
RunLengths == {0, 5, 6, 196, 197, 198, 199, 200, 201}
Heads == {<<>>, <<10>>, <<32>>}
Tails ==
    {<<>>, <<10>>, <<10, 32>>, <<32, 10>>, <<13, 10>>, <<13, 10, 98>>,
     <<10, 98, 99, 100>>, <<32, 124, 32>>, <<32>>, <<0, 98>>, <<10, 32, 10>>,
     <<9, 9, 98, 10>>, <<10, 98, 10, 99, 10>>}
SnippetPayloads ==
    {head \o Run(97, n) \o tail : head \in Heads, n \in RunLengths, tail \in Tails}

\* the bound address as sin_addr holds it
LocalIpRaw == FromNeBytes(BoundAddr)

\* sniffer_thread: parse_packet(pkt, local_ip) on the packet recv returned
CallParsePacket ==
    /\ probe.name = "recv"
    /\ probe' = [name |-> "parse_packet", arg |-> probe.arg,
                 result |-> ParsePacket(probe.arg, LocalIpRaw)]
    /\ AppAside

\* parse_packet: extract_best_snippet(payload, 200)
CallExtractBestSnippet ==
    /\ probe.name = "payload"
    /\ probe' = [name |-> "extract_best_snippet", arg |-> probe.arg,
                 result |-> ExtractBestSnippet(probe.arg, SnippetMax)]
    /\ AppAside

\* ---------------------------------------------------------------- dns.rs: read_dns_cache_ipconfig

\* the prefixes the parser looks for, as bytes
RecordNameText == <<82, 101, 99, 111, 114, 100, 32, 78, 97, 109, 101>>

HostRecordText == <<65, 32, 40, 72, 111, 115, 116, 41, 32, 82, 101, 99, 111, 114, 100>>

HostText == <<65, 32, 40, 72, 111, 115, 116, 41>>

Ipv6RecordText == <<65, 65, 65, 65, 32, 82, 101, 99, 111, 114, 100>>

\* str::starts_with
StartsWith(s, pat) == Len(s) >= Len(pat) /\ SubSeq(s, 1, Len(pat)) = pat

\* the position of the first `pat` in s, 0 when there is none
FindText(s, pat) ==
    LET at == {i \in 1..(Len(s) - Len(pat) + 1) : SubSeq(s, i, i + Len(pat) - 1) = pat}
    IN IF at = {} THEN 0 ELSE CHOOSE i \in at : \A j \in at : i <= j

\* splitn(2, pat).nth(1): what follows the first `pat`, None without one
AfterFirst(s, pat) ==
    LET i == FindText(s, pat)
    IN IF i = 0 THEN None ELSE Some(SubSeq(s, i + Len(pat), Len(s)))

\* the pieces of s between the bytes `sep`
RECURSIVE SplitText(_, _)
SplitText(s, sep) ==
    LET i == FindText(s, <<sep>>)
    IN IF i = 0 THEN <<s>>
       ELSE <<SubSeq(s, 1, i - 1)>> \o SplitText(SubSeq(s, i + 1, Len(s)), sep)

\* an octet in decimal: one to three digits, no leading zero, at most 255
ParseOctet(t) ==
    IF Len(t) \in 1..3 /\ (\A i \in 1..Len(t) : t[i] \in 48..57) /\ (Len(t) = 1 \/ t[1] # 48)
    THEN LET n == IF Len(t) = 1 THEN t[1] - 48
                  ELSE IF Len(t) = 2 THEN (t[1] - 48) * 10 + (t[2] - 48)
                  ELSE (t[1] - 48) * 100 + (t[2] - 48) * 10 + (t[3] - 48)
         IN IF n <= 255 THEN Some(n) ELSE None
    ELSE None

\* str::parse::<Ipv4Addr>: four octets between dots
ParseIpv4(t) ==
    LET parts == SplitText(t, 46)
    IN IF Len(parts) = 4 /\ \A i \in 1..4 : ParseOctet(parts[i]) # None
       THEN Some(<<ParseOctet(parts[1])[1], ParseOctet(parts[2])[1],
                   ParseOctet(parts[3])[1], ParseOctet(parts[4])[1]>>)
       ELSE None

HexDigit(c) ==
    IF c \in 48..57 THEN c - 48
    ELSE IF c \in 97..102 THEN c - 87
    ELSE IF c \in 65..70 THEN c - 55
    ELSE 0 - 1

\* a group of an IPv6 address: one to four hexadecimal digits
RECURSIVE HexValue(_)
HexValue(t) == IF t = <<>> THEN 0 ELSE HexValue(SubSeq(t, 1, Len(t) - 1)) * 16 + HexDigit(t[Len(t)])

ParseGroup(t) ==
    IF Len(t) \in 1..4 /\ \A i \in 1..Len(t) : HexDigit(t[i]) >= 0 THEN Some(HexValue(t)) ELSE None

\* the groups of one side of an address, None when one of them is no group
ParseGroups(t) ==
    IF t = <<>> THEN Some(<<>>)
    ELSE LET parts == SplitText(t, 58)
         IN IF \A i \in 1..Len(parts) : ParseGroup(parts[i]) # None
            THEN Some([i \in 1..Len(parts) |-> ParseGroup(parts[i])[1]])
            ELSE None

\* str::parse::<Ipv6Addr>: eight groups, or fewer around one "::" that stands
\* for the missing zero groups (the forms ending in a dotted IPv4 address are
\* not in the outputs of the model)
ParseIpv6(t) ==
    LET i == FindText(t, <<58, 58>>)
    IN IF i = 0
       THEN LET all == ParseGroups(t)
            IN IF t # <<>> /\ all # None /\ Len(all[1]) = 8 THEN all ELSE None
       ELSE LET head == ParseGroups(SubSeq(t, 1, i - 1))
                tail == ParseGroups(SubSeq(t, i + 2, Len(t)))
            IN IF head # None /\ tail # None /\ Len(head[1]) + Len(tail[1]) <= 7
               THEN Some(head[1] \o [k \in 1..(8 - Len(head[1]) - Len(tail[1])) |-> 0] \o tail[1])
               ELSE None

\* HashMap::entry(ip).or_insert_with(|| name): a key already in the map keeps its value
OrInsert(map, ip, name) ==
    IF ip \in DOMAIN map THEN map
    ELSE [k \in DOMAIN map \cup {ip} |-> IF k = ip THEN name ELSE map[k]]

\* the body of the loop over text.lines(): st holds current_name and reverse_map
ParseLine(st, line) ==
    LET trimmed == Trim(line)
    IN IF StartsWith(trimmed, RecordNameText)
       THEN LET val == AfterFirst(trimmed, <<58>>)
            IN IF val # None /\ Trim(val[1]) # <<>> /\ Trim(val[1]) # <<46>>
               THEN [st EXCEPT !.current_name = Some(Trim(val[1]))]
               ELSE st
       ELSE IF StartsWith(trimmed, HostRecordText) \/ StartsWith(trimmed, HostText)
       THEN LET val == AfterFirst(trimmed, <<58>>)
            IN IF st.current_name # None /\ val # None /\ ParseIpv4(Trim(val[1])) # None
               THEN [st EXCEPT !.reverse_map =
                        OrInsert(@, ParseIpv4(Trim(val[1]))[1], st.current_name[1])]
               ELSE st
       ELSE IF StartsWith(trimmed, Ipv6RecordText)
       THEN LET val == AfterFirst(trimmed, <<58, 32>>)
            IN IF st.current_name # None /\ val # None /\ ParseIpv6(Trim(val[1])) # None
               THEN [st EXCEPT !.reverse_map =
                        OrInsert(@, ParseIpv6(Trim(val[1]))[1], st.current_name[1])]
               ELSE st
       ELSE st

\* the loop: the lines in order, from no name and an empty map
RECURSIVE ParseLines(_)
ParseLines(lines) ==
    IF lines = <<>> THEN [current_name |-> None, reverse_map |-> EmptyMap]
    ELSE ParseLine(ParseLines(SubSeq(lines, 1, Len(lines) - 1)), lines[Len(lines)])

\* read_dns_cache_ipconfig on what the command gave: None when it could not
\* be run or failed, else the lines of its output
ReadDnsCacheIpconfig(output) ==
    IF output = None THEN EmptyMap ELSE ParseLines(output[1]).reverse_map

\* the lines of `ipconfig /displaydns` the model draws the output from
NameLine(name) == <<32, 32, 32, 32, 82, 101, 99, 111, 114, 100, 32, 78, 97, 109, 101, 32, 46, 32, 46, 32, 46, 32, 46, 32, 46, 32, 58, 32>> \o name \o <<13>>

HostLine(addr) == <<32, 32, 32, 32, 65, 32, 40, 72, 111, 115, 116, 41, 32, 82, 101, 99, 111, 114, 100, 32, 46, 32, 46, 32, 46, 32, 58, 32>> \o addr \o <<13>>

Ipv6Line(addr) == <<32, 32, 32, 32, 65, 65, 65, 65, 32, 82, 101, 99, 111, 114, 100, 32, 46, 32, 46, 32, 46, 32, 46, 32, 46, 32, 58, 32>> \o addr \o <<13>>

TypeLine == <<32, 32, 32, 32, 82, 101, 99, 111, 114, 100, 32, 84, 121, 112, 101, 32, 46, 32, 46, 32, 46, 32, 46, 32, 46, 32, 58, 32, 49, 13>>

WwwName == <<119, 119, 119, 46, 103, 111, 111, 103, 108, 101, 46, 99, 111, 109>>

LbName == <<108, 98, 46, 103, 111, 111, 103, 108, 101, 46, 99, 111, 109>>

GoogleText == <<49, 52, 50, 46, 50, 53, 48, 46, 56, 48, 46, 52, 54>>

PeerText == <<49, 48, 46, 48, 46, 48, 46, 50>>

NoIpText == <<49, 48, 46, 48, 46, 48, 46, 50, 53, 54>>

Google6Text == <<50, 54, 48, 55, 58, 102, 56, 98, 48, 58, 58, 50, 48, 48, 101>>

IpconfigLines ==
    {NameLine(WwwName), NameLine(LbName), NameLine(<<46>>), NameLine(<<>>),
     HostLine(GoogleText), HostLine(PeerText), HostLine(NoIpText),
     Ipv6Line(Google6Text), TypeLine}

MaxLines == 4

IpconfigOutputs == {None} \cup {Some(lines) : lines \in SeqsUpTo(IpconfigLines, MaxLines)}

\* resolve_dns: read_dns_cache_ipconfig() on the output of the command
CallReadDnsCacheIpconfig ==
    /\ probe.name = "ipconfig"
    /\ probe' = [name |-> "read_dns_cache_ipconfig", arg |-> probe.arg,
                 result |-> ReadDnsCacheIpconfig(probe.arg)]
    /\ AppAside

\* ---------------------------------------------------------------- sniffer.rs: the indexes parse_packet reads

\* (mutant) the TCP length check asking for a UDP header only
TransportMinOfUdp(protocol) == 8

\* the bytes the transport header must have: `pkt.len() < ihl + 20` for TCP,
\* `pkt.len() < ihl + 8` for UDP
TransportMin(protocol) == IF protocol = 6 THEN 20 ELSE 8

\* the indexes (from 0, as in the source) of the bytes parse_packet reads on
\* the way it takes through the packet; the payload slice &pkt[offset..] and
\* the scan of extract_best_snippet over it count as offset..len-1. The data
\* offset is taken from pkt[ihl + 12] where the packet has that byte.
IndexesRead(pkt) ==
    IF Len(pkt) < 20 THEN {}
    ELSE
    LET version == HighNibble(pkt[1])
        ihl == LowNibble(pkt[1]) * 4
    IN
    IF version # 4 THEN {0}
    ELSE IF Len(pkt) < ihl THEN {0}
    ELSE
    LET header == {0, 9} \cup (12..19)
        protocol == pkt[10]
    IN
    IF BothLoopback(<<pkt[13], pkt[14], pkt[15], pkt[16]>>,
                    <<pkt[17], pkt[18], pkt[19], pkt[20]>>) THEN header
    ELSE IF protocol \notin {6, 17} THEN header
    ELSE IF Len(pkt) < ihl + TransportMin(protocol) THEN header
    ELSE
    LET ports == ihl..(ihl + 3)
        transport == IF protocol = 6 THEN ports \cup {ihl + 12} ELSE ports
        payload_offset == IF protocol = 6
                          THEN IF ihl + 13 <= Len(pkt)
                               THEN ihl + HighNibble(pkt[ihl + 13]) * 4
                               ELSE ihl
                          ELSE ihl + 8
    IN
    IF payload_offset >= Len(pkt) THEN header \cup transport
    ELSE header \cup transport \cup (payload_offset..(Len(pkt) - 1))

\* the packets of the index check: every IHL nibble and every data-offset
\* nibble, TCP and UDP, between two hosts, filled with the letter A, cut at
\* the lengths around each length check
MaxPacket == 130
BoundLengths(ihl, off) ==
    {0, 1, 19, 20, 21, ihl - 1, ihl, ihl + 7, ihl + 8, ihl + 9, ihl + 19, ihl + 20,
     ihl + 21, ihl + off - 1, ihl + off, ihl + off + 1, MaxPacket} \cap (0..MaxPacket)
BoundPacket(n, d, protocol, len) ==
    [i \in 1..len |->
        IF i - 1 = n * 4 + 12 /\ protocol = 6 THEN d * 16
        ELSE IF i = 1 THEN 64 + n
        ELSE IF i = 10 THEN protocol
        ELSE IF i \in 13..16 THEN <<10, 0, 0, 1>>[i - 12]
        ELSE IF i \in 17..20 THEN <<10, 0, 0, 2>>[i - 16]
        ELSE 65]
BoundPackets ==
    {BoundPacket(n, d, protocol, len) :
        <<n, d, protocol, len>> \in
            {q \in (0..15) \X (0..15) \X {6, 17} \X (0..MaxPacket) :
                q[4] \in BoundLengths(q[1] * 4, q[2] * 4)}}

\* App::new for the specifications of the tracker: the sniffer is left as
\* PacketSniffer::new made it (its thread shares no variable with the tracker)
InitApp ==
    /\ InitTracker /\ InitSniffer /\ max_snippets = MaxSnippets
    /\ InitSpeed /\ speed_history.max_points = MaxPoints
    /\ prev_bytes_recv = 0 /\ prev_bytes_sent = 0
    /\ InitDns /\ dns_tick = U32(0, 0)
    /\ InitPids
    /\ InitTabs

\* the tracker fed the scenario connection in its three states
Init == InitApp

Next ==
    \/ Update(StateRecords, GoogleCache)
    \/ TogglePause
    \/ Clear

Spec == Init /\ [][Next]_vars

\* the tracker fed a connection whose state is at times outside the table
NextUnknown ==
    \/ Update(UnknownRecords, GoogleCache)
    \/ TogglePause
    \/ Clear

SpecUnknown == InitApp /\ [][NextUnknown]_vars

\* the ticks of App::update over rows the diff skips beside rows it diffs
NextFilter ==
    \/ Tick(FilterRecords, GoogleCache)
    \/ Clear

SpecFilter == InitApp /\ [][NextFilter]_vars

\* the ticks of App::update over a loopback connection and the scenario
\* connection; the snapshot of each tick is kept in App.connections
NextLoopback ==
    \/ Tick(LoopRecords, GoogleCache)
    \/ Clear

SpecLoopback == InitApp /\ [][NextLoopback]_vars

\* updates, paused or not, and clears over two connections
NextOpen ==
    \/ Update(OpenRecords, GoogleCache)
    \/ TogglePause
    \/ Clear

SpecOpen == InitApp /\ [][NextOpen]_vars

\* the ticks of App::update over the four kinds of remote address
NextHosts ==
    \/ Tick(HostRecords, GoogleCache)
    \/ Clear

SpecHosts == InitApp /\ [][NextHosts]_vars

\* the ticks over unchanging kernel sockets, a table read failing at times
NextTables ==
    \/ TickTables
    \/ Clear

SpecTables == InitApp /\ [][NextTables]_vars

\* the two views: ticks beside the Tab key and the toggles of both tabs
NextViews ==
    \/ Tick(ViewRecords, GoogleCache)
    \/ TabKey
    \/ ToggleHide
    \/ ToggleHideConn
    \/ ToggleListen

SpecViews == InitApp /\ [][NextViews]_vars

\* the tracker while the keys of the Traffic tab are pressed
NextKeys ==
    \/ Update(KeyRecords, GoogleCache)
    \/ TogglePause
    \/ Clear
    \/ ToggleHide
    \/ \E ch \in FilterChars : FilterPush(ch)
    \/ FilterPop
    \/ FilterClear
    \/ \E n \in ScrollSteps : ScrollUp(n)
    \/ \E n \in ScrollSteps : ScrollDown(n)
    \/ ScrollHome
    \/ ScrollEnd

SpecKeys == InitApp /\ [][NextKeys]_vars

\* the sniffer: its thread beside the calls of the main context, the tracker
\* left as TrafficTracker::new made it
InitSnifferOnly ==
    /\ InitTracker /\ InitSniffer /\ max_log_size = MaxLogSize
    /\ InitSpeed /\ speed_history.max_points = MaxPoints
    /\ prev_bytes_recv = 0 /\ prev_bytes_sent = 0
    /\ InitDns /\ dns_tick = U32(0, 0)
    /\ InitPids
    /\ InitTabs

NextSniffer ==
    \/ Start
    \/ Stop
    \/ Join
    \/ \E count \in RecentCounts : Recent(count)
    \/ GetErrorLock
    \/ GetError
    \/ DrainLoad
    \/ DrainRead
    \/ SnifferThread

SpecSniffer == InitSnifferOnly /\ [][NextSniffer]_vars

\* the kernel resources of the program: the thread of the sniffer as it is
\* started and stopped, beside the calls of get_process_name
NextRelease ==
    \/ Start
    \/ Stop
    \/ Join
    \/ SnifferThread
    \/ /\ m_pc = "ready"
       /\ \E pid \in Pids, opened \in BOOLEAN, image \in Images :
              CallGetProcessName(pid, opened, image)

SpecRelease == InitSnifferOnly /\ [][NextRelease]_vars

\* the sniffer with a scheduler that lets the thread run, a recv that always
\* completes in the end (a packet arrives or the call fails), and a main
\* context that comes back from join once the thread has ended
\* (the calls the program makes: start in App::new, stop when the sniffer is
\* dropped, recent and get_error in ui/packets.rs)
NextCapture ==
    \/ Start
    \/ Stop
    \/ Join
    \/ \E count \in RecentCounts : Recent(count)
    \/ GetErrorLock
    \/ GetError
    \/ SnifferThread

SpecSnifferLive ==
    /\ InitSnifferOnly /\ [][NextCapture]_vars
    /\ WF_vars(SnifferThread) /\ WF_vars(Join) /\ WF_vars(GetError)

\* the program as App::new leaves it, but for the helper under test
InitHelper ==
    /\ InitTracker /\ InitSniffer /\ max_snippets = MaxSnippets
    /\ max_log_size = MaxLogSize
    /\ InitSpeed /\ speed_history.max_points = MaxPoints
    /\ prev_bytes_recv = 0 /\ prev_bytes_sent = 0
    /\ dns_cache = EmptyMap /\ dns_tick = U32(0, 0) /\ wraps = 0
    /\ dns_seen = [os |-> EmptyMap, fallback |-> None]
    /\ InitPids
    /\ InitTabs

\* parse_packet on each packet recv may return
InitParse ==
    /\ InitHelper
    /\ probe \in {[name |-> "recv", arg |-> pkt, result |-> 0] : pkt \in Packets}

SpecParse == InitParse /\ [][CallParsePacket]_vars

\* parse_packet over the packets of the index check
InitBounds ==
    /\ InitHelper
    /\ probe \in {[name |-> "recv", arg |-> pkt, result |-> 0] : pkt \in BoundPackets}

SpecBounds == InitBounds /\ [][CallParsePacket]_vars

\* read_dns_cache_ipconfig on each output of the command
InitIpconfig ==
    /\ InitHelper
    /\ probe \in {[name |-> "ipconfig", arg |-> out, result |-> 0] : out \in IpconfigOutputs}

SpecIpconfig == InitIpconfig /\ [][CallReadDnsCacheIpconfig]_vars

\* sort_connections and toggle_sort on each App of SortApps
InitSort ==
    /\ InitHelper
    /\ probe \in {[name |-> "app", arg |-> [app |-> app, col |-> app.sort_column],
                     result |-> 0] : app \in SortApps}

NextSort ==
    \/ CallSortConnections
    \/ \E col \in SortColumns : CallToggleSort(col)

SpecSort == InitSort /\ [][NextSort]_vars

\* extract_best_snippet on each payload
InitSnippet ==
    /\ InitHelper
    /\ probe \in {[name |-> "payload", arg |-> data, result |-> 0] : data \in SnippetPayloads}

SpecSnippet == InitSnippet /\ [][CallExtractBestSnippet]_vars

\* the process names: fetch_connections tick after tick
InitFetch ==
    /\ InitHelper
    /\ probe = NoProbe

SpecPids == InitFetch /\ [][FetchConnections]_vars

\* the ticks of App::update on a machine with no connection and empty OS DNS
\* caches, the byte counters moving
InitSpeedOnly ==
    /\ InitTracker /\ InitSniffer /\ max_log_size = MaxLogSize
    /\ max_snippets = MaxSnippets
    /\ InitSpeed
    /\ InitDns /\ dns_tick = U32(0, 0)
    /\ InitPids
    /\ InitTabs

NextSpeed == AppUpdate(MaxSpeedTicks, RecvCounts, SentCounts, Elapsed, {<<>>}, {EmptyMap})

SpecSpeed == InitSpeedOnly /\ [][NextSpeed]_vars

\* the ticks of App::update on a machine with idle interfaces, the table of
\* connections and the OS DNS caches changing from tick to tick
InitDnsOnly ==
    /\ InitPids
    /\ InitTabs
    /\ InitTracker /\ InitSniffer /\ max_log_size = MaxLogSize
    /\ max_snippets = MaxSnippets
    /\ InitSpeed /\ speed_history.max_points = MaxPoints
    /\ prev_bytes_recv = 0 /\ prev_bytes_sent = 0
    /\ InitDns

NextDns == AppUpdate(MaxTicks, {0}, {0}, {1}, DnsTables, DnsSources)

SpecDns == InitDnsOnly /\ [][NextDns]_vars

\* is_outbound over rows of many ports
NextOutbound == \E lp \in LocalPorts, rp \in RemotePorts : CallIsOutbound(lp, rp)

SpecOutbound == InitApp /\ [][NextOutbound]_vars

\* ntohs over many port fields
NextNtohs == \E port \in PortFields : CallNtohs(port)

SpecNtohs == InitApp /\ [][NextNtohs]_vars

\* ---------------------------------------------------------------- vocabulary of the claims

\* the ConnKey an entry is about
EntryKey(e) ==
    [proto |-> e.proto, local_addr |-> e.local_addr, local_port |-> e.local_port,
     remote_addr |-> e.remote_addr, remote_port |-> e.remote_port]

Kinds(es) == [i \in DOMAIN es |-> es[i].event.kind]

\* how many entries of es are of this kind and about key k
CountOf(es, kind, k) ==
    Cardinality({i \in DOMAIN es : es[i].event.kind = kind /\ EntryKey(es[i]) = k})

\* how many entries of es are about key k
CountAbout(es, k) == Cardinality({i \in DOMAIN es : EntryKey(es[i]) = k})

\* a record the diff ignores: TCP in LISTEN, or UDP without a remote endpoint
Ignored(c) ==
    \/ (c.proto = "Tcp" /\ c.state = Some(FromRaw(2)))
    \/ (c.proto = "Udp" /\ c.remote_addr = None)

\* the rows of conns that the diff looks at and that have key k
RowsOf(conns, k) == {i \in DOMAIN conns : ~Ignored(conns[i]) /\ Key(conns[i]) = k}

\* the last n entries of es
LastN(es, n) == IF Len(es) <= n THEN es ELSE SubSeq(es, Len(es) - n + 1, Len(es))

\* P(conns, events) for every snapshot of the given rows the next unpaused
\* update may be handed and every order it may report the closed keys in,
\* events being what that update pushes
ForEveryUpdate(records, cache, P(_, _)) ==
    \A conns \in Given(records, cache) :
        \A order \in ClosingOrders(conns, cache) :
            P(conns, UpdateEvents(conns, cache, order, prev_connections, conn_data))

\* ---------------------------------------------------------------- C1

\* the three rules of C1 for an update of snapshot conns that pushes ev
C1_Rules(conns, ev) ==
    /\ \A i \in DOMAIN conns :
          LET k == Key(conns[i])
          IN (~Ignored(conns[i]) /\ k \notin DOMAIN prev_connections) =>
                /\ CountOf(ev, "NewConnection", k) = Cardinality(RowsOf(conns, k))
                /\ CountAbout(ev, k) = Cardinality(RowsOf(conns, k))
    /\ \A k \in DOMAIN prev_connections :
          /\ ( /\ RowsOf(conns, k) # {}
               /\ \A i \in RowsOf(conns, k) : conns[i].state = prev_connections[k].state )
                => CountAbout(ev, k) = 0
          /\ RowsOf(conns, k) = {}
                => /\ CountOf(ev, "ConnectionClosed", k) = 1
                   /\ CountAbout(ev, k) = 1

\* the log the new-then-closed scenario expects after its first, second and third tick
NewThenClosedLogs ==
    <<<<"NewConnection">>, <<"NewConnection">>, <<"NewConnection", "ConnectionClosed">>>>

\* C1: in an unpaused update, a record whose key was not tracked yields a
\* NewConnection, a tracked key seen again in its remembered state yields no
\* event, and a tracked key missing from the snapshot yields exactly one
\* ConnectionClosed; the ticks [c, c, empty] on a new tracker leave the log
\* [NewConnection, ConnectionClosed] (the last max_log_size entries of it).
C1_NewUnchangedClosed ==
    /\ ForEveryUpdate(StateRecords, GoogleCache, C1_Rules)
    /\ \A run \in NewThenClosedRuns :
          (scenario.on /\ scenario.ticks # <<>> /\ IsPrefix(scenario.ticks, run)) =>
             Kinds(log) = LastN(NewThenClosedLogs[Len(scenario.ticks)], max_log_size)

\* the new-then-closed scenario has run and both its events are in the log
C1_Witness ==
    /\ scenario.on
    /\ scenario.ticks \in NewThenClosedRuns
    /\ Kinds(log) = <<"NewConnection", "ConnectionClosed">>
    /\ Kinds(emitted) = <<"ConnectionClosed">>

\* ---------------------------------------------------------------- C2

\* the rows of conns for which C2 expects a StateChange: key tracked, the
\* remembered and the current state both present and different
ChangedRows(conns) ==
    {i \in DOMAIN conns :
        /\ ~Ignored(conns[i])
        /\ Key(conns[i]) \in DOMAIN prev_connections
        /\ prev_connections[Key(conns[i])].state # None
        /\ conns[i].state # None
        /\ prev_connections[Key(conns[i])].state # conns[i].state}

\* entry e is the StateChange C2 describes for row c
IsChangeOf(e, c) ==
    /\ e.event.kind = "StateChange"
    /\ EntryKey(e) = Key(c)
    /\ e.event.from = prev_connections[Key(c)].state
    /\ e.event.to = c.state
    /\ e.state_label = Label(c.state[1])

\* the StateChange entries of ev are, one for one, those of the changed rows
C2_Rules(conns, ev) ==
    LET changes == {j \in DOMAIN ev : ev[j].event.kind = "StateChange"}
    IN /\ Cardinality(changes) = Cardinality(ChangedRows(conns))
       /\ \A i \in ChangedRows(conns) :
             Cardinality({j \in changes : IsChangeOf(ev[j], conns[i])})
                = Cardinality({h \in ChangedRows(conns) : conns[h] = conns[i]})
       /\ \A j \in changes : \E i \in ChangedRows(conns) : IsChangeOf(ev[j], conns[i])

StateTransitionLog ==
    <<NewConnection, StateChange(FromRaw(3), FromRaw(5)), StateChange(FromRaw(5), FromRaw(8))>>

\* C2: an unpaused update pushes a StateChange for a record exactly when its
\* key was tracked and the remembered and current states are both present and
\* differ, from being the remembered state, to the current one and the label
\* that of to; SYN_SENT, ESTABLISHED, CLOSE_WAIT on three ticks give
\* [NewConnection, StateChange(SYN_SENT to ESTABLISHED),
\* StateChange(ESTABLISHED to CLOSE_WAIT)].
C2_StateChange ==
    /\ ForEveryUpdate(StateRecords, GoogleCache, C2_Rules)
    /\ (scenario.on /\ scenario.ticks # <<>> /\ IsPrefix(scenario.ticks, StateTransitionRun)) =>
          [i \in DOMAIN log |-> log[i].event]
             = LastN(SubSeq(StateTransitionLog, 1, Len(scenario.ticks)), max_log_size)

\* the state-transition scenario has run and its last two events fill the log
C2_Witness ==
    /\ scenario.on
    /\ scenario.ticks = StateTransitionRun
    /\ [i \in DOMAIN log |-> log[i].event] = SubSeq(StateTransitionLog, 2, 3)
    /\ log[2].state_label = "CLOSE_WAIT"
    /\ Kinds(emitted) = <<"StateChange">>

\* ---------------------------------------------------------------- C3

IsStateChange(e) == e.event.kind = "StateChange"

\* C3: every StateChange entry pushed, and so every one in the log, has from
\* different from to, also between two Unknown(raw) states and when several
\* rows of a snapshot share a key.
C3_FromDiffersFromTo ==
    /\ \A i \in DOMAIN log : IsStateChange(log[i]) => log[i].event.from # log[i].event.to
    /\ \A i \in DOMAIN emitted :
          IsStateChange(emitted[i]) => emitted[i].event.from # emitted[i].event.to

\* one update pushed two StateChange entries for two rows of one key, the first
\* of them from one Unknown state to another
C3_Witness ==
    /\ Len(emitted) = 2
    /\ IsStateChange(emitted[1]) /\ IsStateChange(emitted[2])
    /\ EntryKey(emitted[1]) = EntryKey(emitted[2])
    /\ emitted[1].event.from[1].tag = "Unknown"
    /\ emitted[1].event.to[1].tag = "Unknown"
    /\ emitted[1] \in {log[i] : i \in DOMAIN log}

\* ---------------------------------------------------------------- C4

\* an update while paused leaves every field of the tracker as it was
C4_Frame == (op' = "update" /\ paused) => UNCHANGED trackerVars

\* once resumed, the next update treats a key first seen during the pause as
\* it treats any key it does not track: one NewConnection for each of its rows
\* if it is still there, nothing if it is gone
C4_Resume(conns, ev) ==
    ~paused =>
        \A k \in during_pause \ DOMAIN prev_connections :
            /\ CountOf(ev, "NewConnection", k) = Cardinality(RowsOf(conns, k))
            /\ CountAbout(ev, k) = Cardinality(RowsOf(conns, k))

C4_Resumed == ForEveryUpdate(StateRecords, GoogleCache, C4_Resume)

\* C4: update changes nothing while paused; the first update after the pause
\* diffs against what was remembered before it, so a connection that appeared
\* during the pause gets its NewConnection then (exactly one, listed once),
\* and one that came and went during the pause gets no event.
C4_PausedUpdate == [][C4_Frame]_vars /\ []C4_Resumed

\* just resumed: updates were given a connection while paused, it is not
\* tracked and nothing was logged
C4_Witness ==
    /\ ~paused
    /\ op = "pause"
    /\ during_pause # {}
    /\ during_pause \cap DOMAIN prev_connections = {}
    /\ log = <<>>

\* ---------------------------------------------------------------- C5

\* C5: after every update, and after every single push_event within it, the
\* log holds at most max_log_size entries, for max_log_size from 0 up and also
\* when one update pushes more than max_log_size entries.
C5_LogBounded ==
    /\ Len(log) <= max_log_size
    /\ peak <= max_log_size

\* one update pushed more entries than the log may hold, and the log is full
C5_Witness ==
    /\ op = "update"
    /\ max_log_size >= 1
    /\ Len(emitted) > max_log_size
    /\ Len(log) = max_log_size
    /\ peak = max_log_size

\* ---------------------------------------------------------------- C6

IsSuffix(a, b) == Len(a) <= Len(b) /\ a = SubSeq(b, Len(b) - Len(a) + 1, Len(b))

\* C6: over every operation of the tracker (update, clear, pause, hide, scroll
\* and filter keys) the log after it is a suffix of the log before it followed
\* by the entries the operation pushed, in the order it pushed them.
C6_AppendOnly == [][IsSuffix(log', log \o emitted')]_vars

\* with room for one entry, the new-then-closed scenario ran between key
\* presses: ConnectionClosed pushed the NewConnection out at the head
C6_Witness ==
    /\ scenario.on
    /\ scenario.ticks \in NewThenClosedRuns
    /\ max_log_size = 1
    /\ Kinds(log) = <<"ConnectionClosed">>
    /\ Kinds(emitted) = <<"ConnectionClosed">>
    /\ filter_text # <<>>
    /\ ~hide_localhost

\* ---------------------------------------------------------------- C7

\* a key of a row the diff ignores for lack of a remote endpoint
IsUdpBind(x) == x.proto = "Udp" /\ x.remote_addr = None

\* entry e is not about an ignored record
NotOfIgnored(e) ==
    /\ e.state_label # "LISTEN"
    /\ ~IsUdpBind(e)
    /\ IsStateChange(e) => (e.event.from # Some(FromRaw(2)) /\ e.event.to # Some(FromRaw(2)))

\* a tracked key all of whose rows are now in LISTEN is reported closed, once
C7_Rules(conns, ev) ==
    \A k \in DOMAIN prev_connections :
        ( /\ \E i \in DOMAIN conns : Key(conns[i]) = k
          /\ \A i \in DOMAIN conns : Key(conns[i]) = k => conns[i].state = Some(FromRaw(2)) )
            => /\ CountOf(ev, "ConnectionClosed", k) = 1
               /\ CountAbout(ev, k) = 1

\* C7: a TCP record in LISTEN and a UDP record without remote endpoint are
\* never tracked and never logged (no entry with label LISTEN, no StateChange
\* from or to LISTEN, no entry for a UDP socket without remote endpoint); a
\* tracked key whose record turns to LISTEN gets a ConnectionClosed.
C7_ListenAndUdpIgnored ==
    /\ \A k \in DOMAIN prev_connections :
          prev_connections[k].state # Some(FromRaw(2)) /\ ~IsUdpBind(k)
    /\ \A i \in DOMAIN log : NotOfIgnored(log[i])
    /\ \A i \in DOMAIN emitted : NotOfIgnored(emitted[i])
    /\ ForEveryUpdate(FilterRecords, GoogleCache, C7_Rules)

\* the scenario connection was tracked and changed state; then a tick whose
\* snapshot lists it in LISTEN beside the UDP socket closed it
C7_Witness ==
    /\ op = "update"
    /\ \E j \in DOMAIN connections : connections[j].state = Some(FromRaw(2))
    /\ \E j \in DOMAIN connections : IsUdpBind(connections[j])
    /\ Kinds(log) = <<"StateChange", "ConnectionClosed">>
    /\ Kinds(emitted) = <<"ConnectionClosed">>
    /\ prev_connections = EmptyMap

\* ---------------------------------------------------------------- C8

\* both addresses loopback
IsLoopPair(x) ==
    IsLoopback(x.local_addr) /\ x.remote_addr # None /\ IsLoopback(x.remote_addr[1])

\* C8 as the specification states it: update pushes no entry for a
\* loopback-to-loopback connection.
C8_LoopbackExcluded == \A i \in DOMAIN emitted : ~IsLoopPair(emitted[i])

\* the rules of the diff, for the loopback-to-loopback rows and keys
C8_Rules(conns, ev) ==
    /\ \A i \in DOMAIN conns :
          LET k == Key(conns[i])
          IN (IsLoopPair(conns[i]) /\ k \notin DOMAIN prev_connections) =>
                CountOf(ev, "NewConnection", k) = Cardinality(RowsOf(conns, k))
    /\ \A i \in ChangedRows(conns) :
          IsLoopPair(conns[i]) => \E j \in DOMAIN ev : IsChangeOf(ev[j], conns[i])
    /\ \A k \in DOMAIN prev_connections :
          (IsLoopPair(k) /\ RowsOf(conns, k) = {}) =>
                CountOf(ev, "ConnectionClosed", k) = 1

\* C8 (amended): a loopback-to-loopback connection is diffed as any other
\* connection is: update pushes its NewConnection, StateChange and
\* ConnectionClosed entries, and the rows the entries of a tick are about are
\* in that tick's snapshot App.connections.
C8_LoopbackDiffed ==
    /\ ForEveryUpdate(LoopRecords, GoogleCache, C8_Rules)
    /\ \A i \in DOMAIN emitted :
          emitted[i].event.kind # "ConnectionClosed" =>
             \E j \in DOMAIN connections : Key(connections[j]) = EntryKey(emitted[i])

\* a tick whose snapshot holds the loopback connection pushed a StateChange for it
C8_Witness ==
    /\ op = "update"
    /\ \E i \in DOMAIN emitted :
          /\ IsLoopPair(emitted[i])
          /\ IsStateChange(emitted[i])
          /\ \E j \in DOMAIN connections :
                IsLoopPair(connections[j]) /\ Key(connections[j]) = EntryKey(emitted[i])
    /\ \E i \in DOMAIN log : IsLoopPair(log[i]) /\ log[i].event.kind = "NewConnection"

\* ---------------------------------------------------------------- C9

Min(a, b) == IF a <= b THEN a ELSE b

\* C9: whenever the mutex of the ring is not held, the ring is the last
\* min(total_added, max_snippets) snippets pushed, in the order they were
\* pushed: never longer than max_snippets, and of that length once more than
\* max_snippets snippets have been accepted.
C9_RingBounded ==
    ring_lock = "free" =>
        /\ total_added = Len(enqueued)
        /\ Len(snippets) = Min(total_added, max_snippets)
        /\ snippets = LastN(enqueued, max_snippets)

\* a ring of room for two or more that is full after more packets than it holds
C9_Witness ==
    /\ ring_lock = "free"
    /\ max_snippets >= 2
    /\ total_added > max_snippets
    /\ Len(snippets) = max_snippets
    /\ snippets[1] = total_added - max_snippets + 1

\* ---------------------------------------------------------------- C10

\* what a completed recent(count) returned
C10_Returned ==
    call.name = "recent" =>
        /\ call.result = LastN(snippets, call.count)
        /\ Len(call.result) = Min(call.count, Len(snippets))
        /\ call.result = LastN(enqueued, Len(call.result))
        /\ (max_snippets = 3 /\ enqueued = <<1, 2, 3, 4, 5>> /\ call.count = 10)
              => call.result = <<3, 4, 5>>

\* recent changes neither the ring, total_added nor the cursor of drain_new
C10_Frame == call'.name = "recent" => UNCHANGED <<snippets, total_added, consumed_count>>

\* C10: recent(count) returns the last min(count, length) snippets of the
\* ring, oldest first as the sniffer enqueued them, and changes neither the
\* ring, total_added nor the cursor of drain_new; with max_snippets = 3 and
\* five snippets enqueued, recent(10) returns the third, fourth and fifth.
C10_Recent == [][C10_Frame]_vars /\ []C10_Returned

\* the example: five snippets enqueued on a ring of three, drain_new has moved
\* its cursor, and recent(10) returned the third, fourth and fifth
C10_Witness ==
    /\ call.name = "recent"
    /\ call.count = 10
    /\ max_snippets = 3
    /\ enqueued = <<1, 2, 3, 4, 5>>
    /\ call.result = <<3, 4, 5>>
    /\ consumed_count > 0

\* ---------------------------------------------------------------- C11

\* C11 as the specification states it: however the thread's appends
\* interleave with the call, and here with no snippet evicted at all, a
\* drain_new call returns the snippets enqueued after the cursor the previous
\* call left and up to the cursor it leaves itself, in the order enqueued
\* (so that call after call every snippet is returned once, none twice and
\* none passed over).
C11_ExactlyOnce ==
    (call.name = "drain_new" /\ Len(enqueued) <= max_snippets) =>
        call.result = SubSeq(enqueued, consumed_count - call.count + 1, consumed_count)

\* ---------------------------------------------------------------- C12

\* a drain_new call has completed with the thread outside its critical section
\* from the load of total_added to the read of the ring
QuietDrain == call.name = "drain_new" /\ ~raced

\* what a drain_new without concurrent append returned, and where it left the cursor
C12_Returned ==
    QuietDrain =>
        /\ consumed_count = total_added
        /\ call.result = LastN(snippets, call.count)
        /\ Len(call.result) = Min(call.count, Len(snippets))
        /\ call.result = LastN(enqueued, Len(call.result))
        /\ (call.count > Len(snippets)) => call.result = snippets
        /\ (max_snippets = 3 /\ enqueued = <<1, 2, 3, 4, 5, 6>> /\ call.count = 3)
              => call.result = <<4, 5, 6>>

\* a drain_new that follows such a call at once returns nothing
C12_Repeated ==
    (QuietDrain /\ call'.name = "drain_new") => (call'.result = <<>> /\ call'.count = 0)

\* C12: with no append concurrent with the call, drain_new returns the newest
\* min(total_added - consumed_count, ring length) snippets, oldest first, and
\* moves the cursor to total_added, so that a drain_new repeated at once
\* returns nothing; when evictions have passed the cursor it returns the whole
\* ring; with max_snippets = 3, the cursor at the third of five snippets and a
\* sixth enqueued, it returns the fourth, fifth and sixth.
C12_DrainNew == [][C12_Repeated]_vars /\ []C12_Returned

\* the example: the cursor stood at the third snippet, three more were
\* enqueued on the ring of three, and drain_new returned them
C12_Witness ==
    /\ QuietDrain
    /\ max_snippets = 3
    /\ enqueued = <<1, 2, 3, 4, 5, 6>>
    /\ call.count = 3
    /\ call.result = <<4, 5, 6>>
    /\ consumed_count = 6

\* ---------------------------------------------------------------- the DNS cache

\* a tick of App::update has just run
Ticked == dns_tick' # dns_tick

\* the addresses the cache has an entry for
Cached == DOMAIN dns_cache

C13_Kept == \A ip \in Cached : ip \in DOMAIN dns_cache' /\ dns_cache'[ip] = dns_cache[ip]

C13_FastFirst ==
    Ticked =>
        /\ \A ip \in DOMAIN dns_seen'.os \ Cached : dns_cache'[ip] = Some(dns_seen'.os[ip])
        /\ dns_seen'.fallback # None =>
              \A ip \in DOMAIN dns_seen'.fallback[1] \ (Cached \cup DOMAIN dns_seen'.os) :
                  dns_cache'[ip] = Some(dns_seen'.fallback[1][ip])

\* C13: an entry of the DNS cache is never overwritten or removed by a later
\* tick, whatever name either source reports for its address later; an
\* address not yet cached gets the name the fast API reports in this tick,
\* and the name of the fallback only if the fast API reports none.
C13_FirstWriterWins == [][C13_Kept /\ C13_FastFirst]_vars

\* the cache kept its first name for an address for which both sources of the
\* last tick reported another name
C13_Witness ==
    /\ GoogleIp \in Cached
    /\ dns_cache[GoogleIp] = Some("www.google.com")
    /\ GoogleIp \in DOMAIN dns_seen.os
    /\ dns_seen.os[GoogleIp] = "lb.google.com"
    /\ dns_seen.fallback # None
    /\ GoogleIp \in DOMAIN dns_seen.fallback[1]
    /\ dns_seen.fallback[1][GoogleIp] = "lb.google.com"

\* both sources of one tick reported a name for an address not yet cached, and
\* the cache took that of the fast API
C13_WitnessFastFirst ==
    /\ dns_seen.fallback # None
    /\ LoopIp \notin Cached
    /\ GoogleIp \in DOMAIN dns_seen.os /\ GoogleIp \in DOMAIN dns_seen.fallback[1]
    /\ dns_seen.os[GoogleIp] = "www.google.com"
    /\ dns_seen.fallback[1][GoogleIp] = "lb.google.com"
    /\ dns_cache[GoogleIp] = Some("www.google.com")
    /\ dns_tick = U32(0, 1)

\* ---------------------------------------------------------------- the attached hostnames

\* the hostname the attachment step is to leave on connection c
HostnameDue(c) ==
    IF c.remote_addr = None THEN None
    ELSE IF c.remote_addr[1] = <<0, 0, 0, 0>> THEN None
    ELSE IF c.remote_addr[1][1] = 127 THEN Some("localhost")
    ELSE IF c.remote_addr[1] \in Cached THEN dns_cache[c.remote_addr[1]]
    ELSE None

\* C14: after the attachment step of a tick every connection of the snapshot
\* has no hostname if it has no remote address or an unspecified one,
\* "localhost" if its remote address is loopback whatever the cache holds,
\* and otherwise what the cache holds for the address (none without entry).
C14_Attached ==
    \A i \in DOMAIN connections : connections[i].dns_hostname = HostnameDue(connections[i])

\* a snapshot with a loopback connection while the cache holds another name
\* for 127.0.0.1, beside a connection whose address is cached
C14_Witness ==
    /\ LoopIp \in Cached
    /\ dns_cache[LoopIp] = Some("this-pc.local")
    /\ Len(connections) = 2
    /\ connections[2].remote_addr = Some(LoopIp)
    /\ connections[2].dns_hostname = Some("localhost")
    /\ connections[1].remote_addr = Some(GoogleIp)
    /\ connections[1].dns_hostname = Some("lb.google.com")

\* a snapshot with a listening socket and a UDP socket, neither given a
\* hostname, beside a connection whose address the cache has no entry for
C14_WitnessNone ==
    /\ Len(connections) = 3
    /\ GoogleIp \notin Cached
    /\ connections[1].remote_addr = Some(GoogleIp)
    /\ connections[2].remote_addr = Some(<<0, 0, 0, 0>>)
    /\ connections[3].remote_addr = None
    /\ \A i \in 1..3 : connections[i].dns_hostname = None

\* ---------------------------------------------------------------- the DNS sources

\* the ticks run since App::new, modulo 10: wraps * 2^32 + dns_tick, with
\* 2^32 = 65536 * 65536 and 65536 = 6 (mod 10)
TicksRunRemTen == (((wraps % 10) * 6 + (dns_tick.hi % 10)) * 6 + (dns_tick.lo % 10)) % 10

\* the ticks that ran before the last tick, modulo 10
EarlierRemTen == (TicksRunRemTen + 9) % 10

\* C15: a tick reads the fallback source exactly when the number of ticks
\* before it is a multiple of 10, for any number of ticks of the wrapping
\* 32-bit tick counter.
C15_FallbackEveryTenth ==
    Len(reads.recv) > 1 => ((dns_seen.fallback # None) <=> EarlierRemTen = 0)

\* ---------------------------------------------------------------- is_outbound

\* the row is_outbound was called on
Row == probe.arg

\* C16: is_outbound is true exactly when the row has a remote port and that
\* port is one of the eighteen listed ones, or the local port is above 1024
\* with the remote port at most 1024, or the local port is above 49152; it
\* is false without remote port.  (51000, 443) and (60000, 12345) are
\* outbound, (80, 51234) is not.
C16_IsOutbound ==
    probe.name = "is_outbound" =>
        /\ probe.result =
              (/\ Row.remote_port # <<>>
               /\ \/ Row.remote_port[1] \in {80, 443, 22, 21, 25, 53, 110, 143, 993, 995, 587,
                                             465, 8080, 8443, 3306, 5432, 6379, 27017}
                  \/ (Row.local_port > 1024 /\ Row.remote_port[1] <= 1024)
                  \/ Row.local_port > 49152)
        /\ Row.remote_port = <<>> => probe.result = FALSE
        /\ (Row.local_port = 51000 /\ Row.remote_port = <<443>>) => probe.result = TRUE
        /\ (Row.local_port = 60000 /\ Row.remote_port = <<12345>>) => probe.result = TRUE
        /\ (Row.local_port = 80 /\ Row.remote_port = <<51234>>) => probe.result = FALSE

\* is_outbound has answered for the row (60000, 12345)
C16_Witness ==
    /\ probe.name = "is_outbound"
    /\ Row.local_port = 60000
    /\ Row.remote_port = <<12345>>
    /\ probe.result = TRUE

\* ---------------------------------------------------------------- ntohs

\* C17 as stated: ntohs(0x00500000) = 80 and ntohs(0x0000BB01) = 443.
C17_NtohsExamples ==
    probe.name = "ntohs" =>
        /\ probe.arg = 5242880 => probe.result = 80
        /\ probe.arg = 47873 => probe.result = 443

\* C17, amended: ntohs reads the two low bytes of the field and swaps them, so
\* ntohs(0x00005000) = 80 and ntohs(0x0000BB01) = 443, and
\* ntohs(0x00500000) = 0.
C17_NtohsLowBytes ==
    probe.name = "ntohs" =>
        /\ probe.arg = 20480 => probe.result = 80
        /\ probe.arg = 47873 => probe.result = 443
        /\ probe.arg = 5242880 => probe.result = 0
        /\ probe.result = ((probe.arg % 256) * 256) + ((probe.arg \div 256) % 256)

\* ntohs has answered for 0x00005000
C17_Witness == probe.name = "ntohs" /\ probe.arg = 20480 /\ probe.result = 80

\* ---------------------------------------------------------------- the speed history

\* the step is a tick that pushed a sample
Pushed == reads' # reads

\* a sequence without its oldest element, if it has one
DropOldest(q) == IF q = <<>> THEN q ELSE Tail(q)

C18_Lengths ==
    /\ Len(speed_history.download) = speed_history.max_points
    /\ Len(speed_history.upload) = speed_history.max_points

C18_Shift ==
    Pushed =>
        /\ speed_history'.download =
              Append(DropOldest(speed_history.download), current_down_speed')
        /\ speed_history'.upload =
              Append(DropOldest(speed_history.upload), current_up_speed')

\* C18 as stated: both sequences of the speed history have max_points
\* elements in every state, for any max_points >= 0, and each push makes both
\* equal to their previous contents without the oldest sample, followed by
\* the new sample.
C18_FixedLength == [][C18_Shift]_vars /\ []C18_Lengths

C18_ShiftIfRoom ==
    Pushed =>
        IF speed_history.max_points > 0
        THEN C18_Shift
        ELSE speed_history'.download = <<>> /\ speed_history'.upload = <<>>

\* C18, amended: both sequences have max_points elements in every state; a
\* push drops the oldest sample and appends the new one when max_points >= 1,
\* and leaves both sequences empty when max_points = 0.
C18_FixedLengthShift ==
    [][C18_ShiftIfRoom /\ speed_history'.max_points = speed_history.max_points]_vars
        /\ []C18_Lengths

\* two pushes into a history of two points: the older sample first
C18_Witness ==
    /\ speed_history.max_points = 2
    /\ reads.recv = <<0, 1, 3>>
    /\ speed_history.download = <<Speed(1, 1), Speed(2, 2)>>
    /\ reads.sent = <<2, 0, 2>>
    /\ speed_history.upload = <<Speed(0, 1), Speed(2, 2)>>

\* a push into a history of no point
C18_WitnessEmpty ==
    /\ speed_history.max_points = 0
    /\ reads.recv = <<0, 3>>
    /\ current_down_speed = Speed(3, 1)
    /\ speed_history.download = <<>>

\* ---------------------------------------------------------------- the running totals

\* the sum, over the readings after the first, of what each is above the one
\* before it (nothing if it is not above)
RECURSIVE SumOfRises(_)
SumOfRises(rs) ==
    IF Len(rs) < 2 THEN 0
    ELSE LET n == Len(rs)
             rise == IF rs[n] > rs[n - 1] THEN rs[n] - rs[n - 1] ELSE 0
         IN SumOfRises(SubSeq(rs, 1, n - 1)) + rise

\* C19: after any sequence of ticks total_down and total_up are the sums,
\* over the ticks, of max(0, counter read at this tick - counter read at the
\* tick before): a counter that fell adds nothing and is the baseline of the
\* next tick, and no rise is left out.
C19_Totals ==
    /\ total_down = SumOfRises(reads.recv)
    /\ total_up = SumOfRises(reads.sent)
    /\ prev_bytes_recv = reads.recv[Len(reads.recv)]
    /\ prev_bytes_sent = reads.sent[Len(reads.sent)]

\* the received counter rose by 2, fell to 0 and rose by 3, while the sent
\* counter fell and rose
C19_Witness ==
    /\ reads.recv = <<1, 3, 0, 3>>
    /\ total_down = 5
    /\ reads.sent = <<2, 0, 2, 2>>
    /\ total_up = 2

\* ---------------------------------------------------------------- the sniffer's failed starts

\* the message of each initialisation step
OwnMessage(step) ==
    CASE step = "wsa" -> "WSAStartup failed"
      [] step = "localip" -> "Could not determine local IP"
      [] step = "socket" -> "Raw socket creation failed (run as Administrator)"
      [] step = "bind" -> "Socket bind failed"
      [] step = "ioctl" -> "SIO_RCVALL failed (requires Administrator privileges)"

\* after a failed step the thread only releases what it holds and ends
C20_Ended ==
    failed # None =>
        /\ failed[1] \in {"wsa", "localip", "socket", "bind", "ioctl"}
        /\ t_pc \in {"fail", "set_error", "close", "cleanup", "deactivate", "idle"}
        /\ t_pc \notin {"fail", "set_error"} => error_msg = Some(OwnMessage(failed[1]))
        /\ t_pc = "idle" => (~active /\ ~sock_open /\ ~wsa_up)
        /\ ring_lock = "free"

\* no step after the failure appends to the ring, and none of the thread
\* moves the main context
C20_Quiet ==
    (failed # None /\ failed' # None) =>
        /\ snippets' = snippets
        /\ enqueued' = enqueued
        /\ total_added' = total_added
        /\ (t_pc' # t_pc) => m_pc' = m_pc

\* the step at which the failure happens: the thread is at that step, and
\* the main context stays where it is
C20_Failing ==
    (failed = None /\ failed' # None) =>
        /\ failed' = Some(t_pc)
        /\ m_pc' = m_pc
        /\ snippets' = snippets /\ enqueued' = enqueued

\* C20: each failure of an initialisation step of the sniffer thread stores
\* that step's message, the thread then clears the active flag and ends
\* without entering the capture loop or appending to the ring, and the main
\* context is neither stopped nor blocked by it.
C20_InitFailure == [][C20_Failing /\ C20_Quiet]_vars /\ []C20_Ended

\* the thread has ended after its bind failed, and the main context has
\* since read the ring
C20_Witness ==
    /\ failed = Some("bind")
    /\ t_pc = "idle"
    /\ error_msg = Some("Socket bind failed")
    /\ ~active
    /\ call.name = "recent"

\* ---------------------------------------------------------------- get_error

\* the sniffer is in its Failed state: the thread started last failed in its
\* initialisation and has stored its message, and no thread was started since
InFailed == failed # None /\ t_pc \notin {"fail", "set_error"}

\* the thread is in its capture loop
InLoop == t_pc \in {"check", "recv", "lock", "push", "count", "evict"}

\* start() was never called
NeverStarted == handle = None /\ t_pc = "idle" /\ ~active /\ failed = None /\ error_msg = None

GotError == call.name = "get_error"

\* C21 as stated: get_error returns a message exactly when the sniffer is in
\* the Failed state; none before any start, none in the capture loop, and
\* after a failed start the message of that attempt.
C21_MessageIffFailed ==
    GotError =>
        /\ (call.result # None) <=> InFailed
        /\ InFailed => call.result = Some(OwnMessage(failed[1]))

\* C21, amended: get_error returns none before any start and none while the
\* thread is in its capture loop; after a failed start it returns the message
\* of that attempt; the message of a failed attempt is still returned while a
\* later start goes through its initialisation, until that attempt reaches
\* the loop or fails itself.
C21_GetError ==
    GotError =>
        /\ call.result = error_msg
        /\ InFailed => call.result = Some(OwnMessage(failed[1]))
        /\ InLoop => call.result = None
        /\ (call.result # None /\ ~InFailed) =>
              t_pc \in {"wsa", "localip", "socket", "bind", "ioctl", "enter", "live",
                        "fail", "set_error"}

C21_Before == (NeverStarted /\ call'.name = "get_error") => call'.result = None

C21_GetErrorAlways == [][C21_Before]_vars /\ []C21_GetError

\* get_error called after the thread ended on a failed ioctl
C21_Witness ==
    /\ GotError
    /\ failed = Some("ioctl")
    /\ t_pc = "idle"
    /\ call.result = Some("SIO_RCVALL failed (requires Administrator privileges)")

\* get_error returning the message of an earlier attempt during a restart
C21_WitnessStale ==
    /\ GotError
    /\ failed = None
    /\ t_pc = "socket"
    /\ call.result = Some("Socket bind failed")

\* ---------------------------------------------------------------- start

\* the fields of the sniffer and the state of its thread
snifferState ==
    <<snippets, max_snippets, active, error_msg, handle, total_added, consumed_count,
      ring_lock, t_pc, t_snippet, sock_open, wsa_up, error_lock, t_err>>

\* start() called with the active flag set leaves everything as it was
C22_Idempotent ==
    (m_pc = "ready" /\ active /\ call'.name = "start") => snifferState' = snifferState

\* start() spawns a thread only when no thread is alive: whenever the main
\* context is free to call it and the flag is clear, the thread before has
\* ended and its socket is closed
C22_OneThread ==
    /\ (m_pc = "ready" /\ ~active) => (t_pc = "idle" /\ ~sock_open /\ ~wsa_up)
    /\ t_pc = "idle" => ~sock_open

\* a thread is spawned only from the state in which none is alive
C22_Spawn == (t_pc' = "wsa" /\ call'.name = "start" /\ ~active) => (t_pc = "idle" /\ ~sock_open)

\* C22: start() called while the active flag is set spawns no thread and
\* changes no state; over any sequence of start() and stop() calls and of
\* failures and exits of the thread, a thread is only spawned once the one
\* before has closed its socket and ended, so at most one holds a socket.
C22_StartIdempotent == [][C22_Idempotent /\ C22_Spawn]_vars /\ []C22_OneThread

\* start() was called while the thread holds its socket in the loop
C22_Witness ==
    /\ call.name = "start"
    /\ active
    /\ sock_open
    /\ t_pc = "recv"
    /\ enqueued # <<>>

\* ---------------------------------------------------------------- stop

\* with the flag clear only a snippet already parsed is still appended
C23_NoAppend == (~active /\ ~(t_pc \in {"lock", "push"})) => enqueued' = enqueued

\* with the flag clear the thread leaves `while` and recv only for closesocket
C23_ExitAtRecv ==
    (~active /\ t_pc \in {"check", "recv"} /\ t_pc' # t_pc) =>
        (t_pc' = "close" /\ enqueued' = enqueued /\ t_snippet' = t_snippet)

\* stop() stays in join while the thread has not ended
C23_Waits == (m_pc = "join" /\ t_pc # "idle") => m_pc' = "join"

\* nothing of the ring moves while no thread runs
C23_Still ==
    (t_pc = "idle" /\ t_pc' = "idle") =>
        (snippets' = snippets /\ total_added' = total_added /\ active' = active)

\* stop() has returned: the thread has ended, its socket is closed and the
\* flag is clear
C23_Returned ==
    call.name = "stop" =>
        (t_pc = "idle" /\ ~active /\ ~sock_open /\ ~wsa_up /\ handle = None)

Times(calls, name) == Cardinality({i \in DOMAIN calls : calls[i] = name})

\* the thread is about to end or has ended
Ending == t_pc \in {"deactivate", "idle"}

\* the thread never releases more than it acquired, acquires each resource at
\* most once, and has released what it acquired when it ends
C24_Thread ==
    /\ kernel.sockets <= 1 /\ kernel.startups <= 1
    /\ kernel.closes <= kernel.sockets
    /\ kernel.cleanups <= kernel.startups
    /\ sock_open <=> kernel.closes < kernel.sockets
    /\ wsa_up <=> kernel.cleanups < kernel.startups
    /\ Ending => (kernel.closes = kernel.sockets /\ kernel.cleanups = kernel.startups)

\* get_process_name closes the handle once if OpenProcess gave one, never
\* otherwise, whether the query succeeds or fails
C24_Handle ==
    probe.name = "get_process_name" =>
        LET opened == probe.arg.pid \notin {0, 4} /\ probe.arg.opened
        IN /\ Times(probe.result.calls, "CloseHandle") = IF opened THEN 1 ELSE 0
           /\ opened => probe.result.calls[Len(probe.result.calls)] = "CloseHandle"

\* C24: when the thread of the sniffer ends, by a failed initialisation, a
\* failed recv or stop, it has closed the raw socket exactly once if it
\* created one and not at all otherwise, and likewise torn the socket library
\* down exactly once if it initialised it; get_process_name closes the
\* process handle exactly once if it opened one, whether or not the name
\* query succeeds.
C24_Released == C24_Thread /\ C24_Handle

\* a thread that ended on a failed bind with one socket created and closed,
\* and a get_process_name whose query failed on an opened handle
C24_Witness ==
    /\ t_pc = "idle"
    /\ failed = Some("bind")
    /\ kernel = [startups |-> 1, cleanups |-> 1, sockets |-> 1, closes |-> 1]
    /\ probe.name = "get_process_name"
    /\ probe.arg = [pid |-> 1000, opened |-> TRUE, image |-> None]
    /\ Times(probe.result.calls, "CloseHandle") = 1

\* a thread that ended on a failed socket creation: nothing to close
C24_WitnessNoSocket ==
    /\ t_pc = "idle"
    /\ failed = Some("socket")
    /\ kernel = [startups |-> 1, cleanups |-> 1, sockets |-> 0, closes |-> 0]

\* ---------------------------------------------------------------- the two mutexes

\* where the thread is inside a call of the socket library
SocketCalls == {"wsa", "localip", "socket", "bind", "ioctl", "recv", "close", "cleanup"}

\* the mutexes each context holds
ThreadHolds ==
    (IF ring_lock = "thread" THEN {"ring"} ELSE {})
        \cup (IF error_lock = "thread" THEN {"error"} ELSE {})

MainHolds == IF error_lock = "main" THEN {"error"} ELSE {}

\* the thread holds no mutex inside a socket call, the ring's mutex only from
\* its lock to the end of the eviction, the message's only to write it; the
\* main context holds the message's mutex only inside get_error; nobody holds
\* two
C25_Discipline ==
    /\ t_pc \in SocketCalls => ThreadHolds = {}
    /\ ring_lock = "thread" <=> t_pc \in {"push", "count", "evict"}
    /\ error_lock = "thread" <=> t_pc \in {"set_error", "live"}
    /\ error_lock = "main" <=> m_pc = "get_error"
    /\ Cardinality(ThreadHolds) <= 1
    /\ Cardinality(MainHolds) <= 1

\* whoever holds a mutex can take its next step: it waits for nothing
C25_NotBlocked ==
    /\ ThreadHolds # {} => ENABLED SnifferThread
    /\ MainHolds # {} => ENABLED GetError

C25_Held == C25_Discipline /\ C25_NotBlocked

\* recent and drain_new read the ring with its mutex taken from the free
\* state and released on return
C25_MainRing ==
    (call'.name = "recent" \/ (m_pc = "drain" /\ m_pc' = "ready")) =>
        (ring_lock = "free" /\ ring_lock' = "free")

\* a step of the thread under the ring's mutex moves it on or shortens the
\* ring: the mutex is held for a bounded number of steps
C25_Bounded ==
    (ring_lock = "thread" /\ t_snippet' = t_snippet /\ snippets' # snippets) =>
        (t_pc = "evict" /\ Len(snippets') < Len(snippets))

\* C25: the thread of the sniffer holds neither mutex while inside a socket
\* call; the main context takes the ring's mutex only within recent and
\* drain_new; no context holds both mutexes at once; and the holder of a
\* mutex never waits, so that no context is blocked on a mutex for ever.
C25_LockDiscipline ==
    /\ [][C25_MainRing /\ C25_Bounded]_vars
    /\ []C25_Held

\* the thread is evicting under the ring's mutex while the main context is
\* inside get_error under the message's
C25_Witness ==
    /\ t_pc = "evict"
    /\ Len(snippets) > max_snippets
    /\ ring_lock = "thread"
    /\ error_lock = "main"

\* the thread waits in set_error for the mutex the main context holds
C25_WitnessWaits ==
    /\ t_pc = "fail"
    /\ error_lock = "main"
    /\ ~ENABLED SnifferThread

\* ---------------------------------------------------------------- parse_packet

\* parse_packet has returned
Parsed == probe.name = "parse_packet"

\* the packet's header length in bytes, and its payload offset, as its bytes
\* announce them
HeaderBytes(p) == (p[1] % 16) * 4
PayloadOffset(p) ==
    IF p[10] = 6
    THEN HeaderBytes(p) + (p[HeaderBytes(p) + 13] \div 16) * 4
    ELSE HeaderBytes(p) + 8

\* the packet is long enough for its transport header
HasTransport(p) ==
    /\ Len(p) >= 20
    /\ p[10] \in {6, 17}
    /\ Len(p) >= HeaderBytes(p) + (IF p[10] = 6 THEN 20 ELSE 8)

\* C26: parse_packet returns no snippet for a packet of fewer than 20 bytes,
\* for one whose version is not 4, for a protocol other than TCP (6) and UDP
\* (17), for a TCP packet of fewer than IHL + 20 bytes and a UDP packet of
\* fewer than IHL + 8, for a packet from loopback to loopback, and for one
\* whose payload offset is at or past its length.
C26_Rejected ==
    Parsed =>
        LET p == probe.arg
        IN /\ Len(p) < 20 => probe.result = None
           /\ (Len(p) >= 20 /\ p[1] \div 16 # 4) => probe.result = None
           /\ (Len(p) >= 20 /\ p[10] \notin {6, 17}) => probe.result = None
           /\ (Len(p) >= 20 /\ p[10] = 6 /\ Len(p) < HeaderBytes(p) + 20) =>
                  probe.result = None
           /\ (Len(p) >= 20 /\ p[10] = 17 /\ Len(p) < HeaderBytes(p) + 8) =>
                  probe.result = None
           /\ (Len(p) >= 20 /\ p[13] = 127 /\ p[17] = 127) => probe.result = None
           /\ (HasTransport(p) /\ PayloadOffset(p) >= Len(p)) => probe.result = None

\* a whole TCP packet with a readable payload, from loopback to loopback
C26_Witness ==
    /\ Parsed
    /\ probe.arg = Packet(69, 6, LoopIp, LoopIp, 50000, 443, 80, HttpPayload)
    /\ probe.result = None

\* a TCP packet cut inside its TCP header, and a UDP packet without payload
C26_WitnessShort ==
    /\ Parsed
    /\ probe.arg = SubSeq(Packet(69, 6, BoundAddr, GoogleIp, 50000, 443, 80, HttpPayload), 1, 39)
    /\ probe.result = None

C26_WitnessEmpty ==
    /\ Parsed
    /\ probe.arg = Packet(69, 17, BoundAddr, GoogleIp, 53, 50000, 80, <<>>)
    /\ probe.result = None

\* C27: the snippet of an accepted packet is Outbound exactly when the
\* packet's source address is the bound local address, carries the two
\* big-endian 16-bit numbers at the start of the transport header as its
\* ports, Tcp or Udp after the protocol byte, and as payload_size the packet's
\* length less the payload offset.
C27_Fields ==
    (Parsed /\ probe.result # None) =>
        LET p == probe.arg
            s == probe.result[1]
            h == HeaderBytes(p)
        IN /\ s.direction \in {"Outbound", "Inbound"}
           /\ s.direction = "Outbound" <=> <<p[13], p[14], p[15], p[16]>> = BoundAddr
           /\ s.src_port = p[h + 1] * 256 + p[h + 2]
           /\ s.dst_port = p[h + 3] * 256 + p[h + 4]
           /\ s.protocol = (IF p[10] = 6 THEN "Tcp" ELSE "Udp")
           /\ p[10] \in {6, 17}
           /\ s.payload_size = Len(p) - PayloadOffset(p)

\* a TCP packet with IP and TCP options sent from the bound address
C27_Witness ==
    /\ Parsed
    /\ probe.arg = Packet(70, 6, BoundAddr, GoogleIp, 50000, 443, 96, HttpPayload)
    /\ probe.result =
           Some([direction |-> "Outbound", src_ip |-> BoundAddr, dst_ip |-> GoogleIp,
                 src_port |-> 50000, dst_port |-> 443, protocol |-> "Tcp",
                 snippet |-> SubSeq(HttpPayload, 1, 14), payload_size |-> 16])

\* a UDP packet received from a loopback source
C27_WitnessInbound ==
    /\ Parsed
    /\ probe.arg = Packet(69, 17, LoopIp, BoundAddr, 53, 50000, 80, HttpPayload)
    /\ probe.result # None
    /\ probe.result[1].direction = "Inbound"
    /\ probe.result[1].protocol = "Udp"
    /\ probe.result[1].src_port = 53
    /\ probe.result[1].payload_size = 16

\* ---------------------------------------------------------------- extract_best_snippet

Extracted == probe.name = "extract_best_snippet"

C28_WitnessFull ==
    /\ Extracted
    /\ probe.arg = Run(97, 201)
    /\ probe.result = Run(97, 200)

\* a line break followed by a blank: the text ends with " |", the separator
\* less its last blank
C28_WitnessRemnant ==
    /\ Extracted
    /\ probe.arg = Run(97, 6) \o <<10, 32>>
    /\ probe.result = Run(97, 6) \o <<32, 124>>

\* ---------------------------------------------------------------- the process names

\* the lookups the last fetch_connections made for a PID
LookupsOf(pid) == {i \in DOMAIN fetched.lookups : fetched.lookups[i].pid = pid}

\* no placeholder is cached
C29_NoPlaceholder == \A pid \in DOMAIN pid_cache : ~StartsWithPid(pid_cache[pid])

\* a PID that the tick found not cached and for which no lookup gave a name
\* is not cached after the tick; one that is cached has the name the last
\* lookup that gave one stored
C29_Unresolvable ==
    \A pid \in PidsIn(fetched.unresolved) :
        LET named == {i \in LookupsOf(pid) : fetched.lookups[i].name # None}
        IN IF named = {}
           THEN pid \notin DOMAIN pid_cache
           ELSE /\ pid \in DOMAIN pid_cache
                /\ \E i \in named :
                       /\ \A j \in named : j <= i
                       /\ pid_cache[pid] = fetched.lookups[i].name[1]

\* the rows of a PID that is not cached show its placeholder, the others the
\* cached name
C29_Rows ==
    \A i \in DOMAIN fetched.conns :
        LET c == fetched.conns[i]
        IN IF c.pid \in DOMAIN pid_cache
           THEN c.process_name = pid_cache[c.pid]
           ELSE c.process_name = Placeholder(c.pid)

\* every PID of the tick's table that was not cached is looked up in the tick
C29_Retry ==
    \A i \in DOMAIN fetched'.conns :
        LET pid == fetched'.conns[i].pid
        IN pid \notin DOMAIN pid_cache =>
               \E j \in DOMAIN fetched'.lookups :
                   /\ fetched'.lookups[j].pid = pid
                   /\ fetched'.lookups[j].by = "get_process_name"

\* a PID cached when the tick begins keeps its entry and is not looked up
C29_Kept ==
    \A pid \in DOMAIN pid_cache :
        /\ pid \in DOMAIN pid_cache'
        /\ pid_cache'[pid] = pid_cache[pid]
        /\ \A j \in DOMAIN fetched'.lookups : fetched'.lookups[j].pid # pid

\* no lookup is made for a PID that is cached when the lookup is made
C29_NoLookupOnceCached ==
    \A i \in DOMAIN fetched.lookups : ~fetched.lookups[i].cached

\* C29 as stated: the cache never holds a placeholder; a PID that neither
\* method resolves is absent from the cache after the tick, its rows show
\* PID:<n>, and it is looked up again in every later tick in which it appears;
\* once a PID is cached its entry is never changed or removed and no further
\* lookup is made for it.
C29_PidCache ==
    /\ [][C29_Retry /\ C29_Kept]_vars
    /\ [](C29_NoPlaceholder /\ C29_Unresolvable /\ C29_Rows)
    /\ []C29_NoLookupOnceCached

C29_AfterTick == C29_NoPlaceholder /\ C29_Unresolvable /\ C29_Rows

\* within a tick only the PIDs not cached when it began are looked up, once
\* for each of their rows
C29_LookupsOfTick ==
    /\ \A i \in DOMAIN fetched.lookups :
           fetched.lookups[i].pid \in PidsIn(fetched.unresolved)
    /\ \A pid \in PidsIn(fetched.unresolved) :
           Cardinality({i \in LookupsOf(pid) :
                            fetched.lookups[i].by = "get_process_name"})
               = Cardinality({i \in DOMAIN fetched.unresolved : fetched.unresolved[i] = pid})

\* C29, amended: the cache never holds a placeholder; a PID that no lookup of
\* the tick resolves is absent from the cache after the tick, its rows show
\* PID:<n>, and it is looked up again in every later tick in which it appears;
\* a PID cached when a tick begins keeps its entry and is not looked up in
\* that tick; in the tick that first resolves a PID a lookup is made for each
\* of its rows, also after one of them has cached it, and the name stored
\* last is the one kept.
C29_PidCacheByTick ==
    /\ [][C29_Retry /\ C29_Kept]_vars
    /\ []C29_AfterTick
    /\ []C29_LookupsOfTick

\* neither method resolved PID 1000: it was looked up by both for each of its
\* two rows, is not cached, and its rows show the placeholder
C29_Witness ==
    /\ fetched.unresolved = <<1000, 1000>>
    /\ 1000 \notin DOMAIN pid_cache
    /\ Len(fetched.lookups) = 4
    /\ \A i \in DOMAIN fetched.conns : fetched.conns[i].process_name = "PID:1000"

\* PID 1000 is cached by the lookup for its first row, looked up again for
\* its second, and its entry replaced by what sysinfo knows
C29_WitnessReplaced ==
    /\ fetched.unresolved = <<1000, 1000>>
    /\ \E i \in DOMAIN fetched.lookups :
           /\ fetched.lookups[i].cached
           /\ fetched.lookups[i].was = Some("chrome.exe")
           /\ fetched.lookups[i].name = Some("chrome")
    /\ pid_cache[1000] = "chrome"

\* ---------------------------------------------------------------- C30

\* the rows the connection view shows, and the entries the traffic view draws
\* (filter_text is empty: filtered_log returns the whole log)
InView(x, view) == \E i \in DOMAIN view : view[i] = x

\* the connection view under hide_localhost_conn: of the rows the LISTEN
\* filter lets through, the hidden ones are those with both endpoints loopback
C30_ConnectionView ==
    hide_localhost_conn =>
        \A i \in DOMAIN connections :
            LET c == connections[i]
            IN (show_listen \/ c.state # Some(Listen)) =>
                   (~InView(c, FilteredConnections) <=> IsLoopPair(c))

\* the traffic view under hide_localhost: the hidden entries are those with
\* both endpoints loopback
C30_TrafficView ==
    hide_localhost =>
        \A i \in DOMAIN log :
            ~InView(log[i], LocalhostFilter(log)) <=> IsLoopPair(log[i])

\* C30: with the toggle on, a record is hidden from the filtered connection
\* view and from the filtered traffic view if and only if its local address
\* and its remote address are both loopback; a record with only one loopback
\* endpoint stays visible.
C30_HideLocalhost ==
    /\ C30_ConnectionView
    /\ C30_TrafficView

\* what the traffic view does: under hide_localhost an entry is hidden if and
\* only if one of its endpoints is loopback
C30_TrafficEither ==
    hide_localhost =>
        \A i \in DOMAIN log :
            ~InView(log[i], LocalhostFilter(log))
                <=> (IsLoopback(log[i].local_addr) \/ RemoteIsLoopback(log[i]))

\* both toggles on, the snapshot and the log hold the connection whose local
\* endpoint only is loopback: the connection view shows it, the traffic view
\* hides its entry
C30_WitnessOneEndpoint ==
    /\ hide_localhost_conn /\ hide_localhost
    /\ \E i \in DOMAIN FilteredConnections :
          Key(FilteredConnections[i]) = Key(HalfLoopConn)
    /\ \E i \in DOMAIN log :
          /\ Key(log[i]) = Key(HalfLoopConn)
          /\ ~IsLoopPair(log[i])
          /\ ~InView(log[i], LocalhostFilter(log))

\* both toggles on, a loopback-to-loopback connection in the snapshot and in
\* the log: both views hide it
C30_WitnessBoth ==
    /\ hide_localhost_conn /\ hide_localhost
    /\ \E i \in DOMAIN connections :
          IsLoopPair(connections[i]) /\ ~InView(connections[i], FilteredConnections)
    /\ \E i \in DOMAIN log :
          IsLoopPair(log[i]) /\ ~InView(log[i], LocalhostFilter(log))

\* ---------------------------------------------------------------- C31

\* a tick has just run with the given failures, the tick before it with the
\* given ones (the tracker is not paused in SpecTables)
TickAfter(before, lost) ==
    /\ op = "update"
    /\ probe.name = "fetch_connections"
    /\ probe.arg.before = Some(before)
    /\ probe.arg.failed = lost

\* C31: the kernel's sockets being unchanged, a tick at which the read of one
\* table fails appends no event to the traffic log, and neither does the tick
\* after it.
C31_NotSurfaced ==
    \A f \in Failures \ {{}} :
        /\ TickAfter({}, f) => emitted = <<>>
        /\ TickAfter(f, {}) => emitted = <<>>

\* what the tracker does: the tick at which a TCP table is not read closes
\* the connections of that table, and the next complete tick opens them again;
\* a UDP table that is not read changes nothing
C31_ClosedAndReopened ==
    \A f \in Failures \ {{}} :
        LET rows == KernelTables[CHOOSE n \in f : TRUE]
            keys == {Key(rows[i]) : i \in {j \in DOMAIN rows : ~Skipped(rows[j])}}
        IN /\ TickAfter({}, f) =>
                  /\ Len(emitted) = Cardinality(keys)
                  /\ \A i \in DOMAIN emitted :
                        emitted[i].event.kind = "ConnectionClosed"
                            /\ Key(emitted[i]) \in keys
           /\ TickAfter(f, {}) =>
                  /\ Len(emitted) = Cardinality(keys)
                  /\ \A k \in keys :
                        \E i \in DOMAIN emitted :
                            emitted[i].event.kind = "NewConnection"
                                /\ Key(emitted[i]) = k

\* the read of the TCP table failed at a tick that followed a complete one:
\* the established connection was reported closed
C31_WitnessClosed ==
    /\ TickAfter({}, {"tcp4"})
    /\ Kinds(emitted) = <<"ConnectionClosed">>
    /\ Key(emitted[1]) = Key(ScenarioConn(5))

\* the complete tick after the failed read reported the connection as new
C31_WitnessReopened ==
    /\ TickAfter({"tcp4"}, {})
    /\ Kinds(emitted) = <<"NewConnection">>
    /\ Key(emitted[1]) = Key(ScenarioConn(5))

\* ---------------------------------------------------------------- C32

\* the distinct keys of the rows update does not skip
KeysOf(conns) == {Key(conns[i]) : i \in {j \in DOMAIN conns : ~Ignored(conns[j])}}

\* one NewConnection for each key that is not tracked, none for a tracked one
C32_OnePerKey(conns, ev) ==
    \A k \in KeysOf(conns) :
        CountOf(ev, "NewConnection", k) = IF k \in DOMAIN prev_connections THEN 0 ELSE 1

\* C32: in one unpaused update, exactly one NewConnection is emitted for each
\* distinct key of the filtered snapshot that is absent from prev, also when
\* the snapshot holds several records with the same key, and none is emitted
\* for a key present in prev.
C32_OneNewPerKey == ForEveryUpdate(LoopRecords, GoogleCache, C32_OnePerKey)

\* what update does: one NewConnection for each record of a key that is not
\* tracked, none for a tracked key
C32_OnePerRecord(conns, ev) ==
    \A k \in KeysOf(conns) :
        CountOf(ev, "NewConnection", k) =
            IF k \in DOMAIN prev_connections THEN 0 ELSE Cardinality(RowsOf(conns, k))

C32_OneNewPerRecord == ForEveryUpdate(LoopRecords, GoogleCache, C32_OnePerRecord)

\* a tick whose snapshot held two records of one untracked key logged two
\* NewConnection entries for it
C32_WitnessTwice ==
    /\ op = "update"
    /\ Len(connections) = 2
    /\ Key(connections[1]) = Key(connections[2])
    /\ Kinds(emitted) = <<"NewConnection", "NewConnection">>
    /\ EntryKey(emitted[1]) = EntryKey(emitted[2])
    /\ DOMAIN prev_connections = {Key(connections[1])}

\* ---------------------------------------------------------------- C33

\* the record of key k that the last tick's update remembered: the last one
\* of the snapshot that update does not skip
Remembered(k) ==
    LET rows == {i \in DOMAIN connections :
                    ~Ignored(connections[i]) /\ Key(connections[i]) = k}
    IN connections[CHOOSE i \in rows : \A j \in rows : j <= i]

\* a ConnectionClosed entry of the next update is about a key of the last
\* snapshot that the new one lacks, and carries what the last update saw
C33_Carried(conns, ev) ==
    \A i \in DOMAIN ev :
        ev[i].event.kind = "ConnectionClosed" =>
            LET k == EntryKey(ev[i])
            IN /\ k \in KeysOf(connections) \ KeysOf(conns)
               /\ ev[i].proto = Remembered(k).proto
               /\ ev[i].process_name = Remembered(k).process_name
               /\ ev[i].outbound = IsOutbound(Remembered(k))
               /\ ev[i].dns_name = DnsName(Remembered(k), GoogleCache)
               /\ ev[i].state_label =
                     IF Remembered(k).state = None THEN "CLOSED"
                     ELSE Label(Remembered(k).state[1])

\* after an update, the keys it reported closed are neither tracked nor in
\* the byte estimates
C33_Removed ==
    op = "update" =>
        \A i \in DOMAIN emitted :
            emitted[i].event.kind = "ConnectionClosed" =>
                /\ EntryKey(emitted[i]) \notin DOMAIN prev_connections
                /\ EntryKey(emitted[i]) \notin DOMAIN conn_data

\* C33: a ConnectionClosed event carries the attributes remembered from the
\* last unpaused update in which its key was present (the endpoints of the
\* key, the protocol, process name, outbound flag, hostname and state label
\* of that update, CLOSED when no state was remembered), and the closed key
\* is removed from the tracked set and from the byte estimates. The ticks of
\* SpecLoopback are unpaused, so the last update is the last tick.
C33_ClosedCarries ==
    /\ ForEveryUpdate(LoopRecords, GoogleCache, C33_Carried)
    /\ C33_Removed

\* a tick closed the loopback connection last seen in CLOSE_WAIT: the entry
\* carries that state and the process name, and the key is tracked no more
C33_Witness ==
    /\ op = "update"
    /\ Kinds(emitted) = <<"ConnectionClosed">>
    /\ EntryKey(emitted[1]) = Key(LoopConn(8))
    /\ emitted[1].state_label = "CLOSE_WAIT"
    /\ emitted[1].process_name = "node.exe"
    /\ Key(LoopConn(8)) \notin DOMAIN prev_connections

\* ---------------------------------------------------------------- C34

\* the keys the entries of one kind are about
KeysOfKind(es, kind) == {EntryKey(es[i]) : i \in {j \in DOMAIN es : es[j].event.kind = kind}}

\* one step of the tracker: the tracked keys after it are those tracked before
\* it and those it reported new, less those it reported closed; it reports
\* closed and changed only keys that were tracked, and new only keys that
\* were not
C34_Step ==
    LET new == KeysOfKind(emitted', "NewConnection")
        closed == KeysOfKind(emitted', "ConnectionClosed")
        changed == KeysOfKind(emitted', "StateChange")
        before == DOMAIN prev_connections
    IN /\ DOMAIN prev_connections' = (before \cup new) \ closed
       /\ new \cap before = {}
       /\ closed \subseteq before
       /\ changed \subseteq before \ closed

\* C34: after any sequence of updates (paused or not) and clears,
\* prev_connections is exactly the set of keys for which a NewConnection has
\* been emitted with no later ConnectionClosed; so every ConnectionClosed for
\* a key follows a NewConnection for it with no ConnectionClosed in between,
\* and every StateChange for a key lies between a NewConnection and the next
\* ConnectionClosed for it. Nothing is tracked at first, and each step keeps
\* the equality.
C34_TrackedSet == (prev_connections = EmptyMap) /\ [][C34_Step]_vars

\* an update reported one tracked connection closed and a change of state of
\* the other, which stays tracked
C34_Witness ==
    /\ op = "update"
    /\ Kinds(emitted) = <<"StateChange", "ConnectionClosed">>
    /\ EntryKey(emitted[2]) = Key(LoopConn(5))
    /\ DOMAIN prev_connections = {Key(ScenarioConn(5))}

\* ---------------------------------------------------------------- C35

\* what clear() writes and what it leaves alone
C35_Frame ==
    op' = "clear" =>
        /\ log' = <<>>
        /\ scroll_offset' = 0
        /\ UNCHANGED <<prev_connections, paused, auto_scroll, filter_text,
                       hide_localhost, max_log_size>>

\* no NewConnection for a connection that is tracked
C35_NoneNew(conns, ev) ==
    \A k \in DOMAIN prev_connections : CountOf(ev, "NewConnection", k) = 0

\* the update that follows a clear reports no tracked connection as new
C35_NextUpdate == op = "clear" => ForEveryUpdate(KeyRecords, GoogleCache, C35_NoneNew)

\* C35: clear() empties the log, resets scroll_offset to 0 and leaves
\* prev_connections, paused, auto_scroll, filter_text, hide_localhost and
\* max_log_size unchanged, so the next update after clear() emits no
\* NewConnection for connections that were already tracked before the clear.
C35_Clear == [][C35_Frame]_vars /\ []C35_NextUpdate

\* a clear with a connection tracked, a filter typed, the tracker paused and
\* the loopback toggle off
C35_Witness ==
    /\ op = "clear"
    /\ log = <<>>
    /\ prev_connections # EmptyMap
    /\ filter_text # <<>>
    /\ paused
    /\ ~hide_localhost
    /\ ~auto_scroll

\* ---------------------------------------------------------------- C36

\* C36: ntohs returns the 16-bit value whose high byte is the lowest byte of
\* the field and whose low byte is the second byte of the field, whatever the
\* upper 16 bits of the field are; for a field below 2^16, swapping the bytes
\* of the result gives the field back.
C36_NtohsSwaps ==
    probe.name = "ntohs" =>
        /\ probe.result \in 0..65535
        /\ probe.result \div 256 = probe.arg % 256
        /\ probe.result % 256 = (probe.arg \div 256) % 256
        /\ probe.result = Ntohs(probe.arg % 65536)
        /\ probe.arg < 65536 => Ntohs(probe.result) = probe.arg

\* a field with a non-zero upper half whose two low bytes are 0x01 and 0xBB:
\* the port is 443 whatever the upper half
C36_Witness ==
    /\ probe.name = "ntohs"
    /\ probe.arg = 80 * 65536 + 47873
    /\ probe.result = 443

\* a field below 2^16 whose bytes differ: swapped twice it is itself
C36_WitnessTwice ==
    /\ probe.name = "ntohs"
    /\ probe.arg = 20480
    /\ probe.result = 80
    /\ Ntohs(probe.result) = 20480

\* ---------------------------------------------------------------- C37

\* C37: parse_packet never reads outside the packet: every index it uses (the
\* IP header bytes, the transport header bytes at IHL.., the payload slice) is
\* within the packet, for every IHL nibble 0..15 and every TCP data-offset
\* nibble 0..15.
C37_InBounds ==
    probe.name = "parse_packet" =>
        \A i \in IndexesRead(probe.arg) : 0 <= i /\ i < Len(probe.arg)

\* a TCP packet with IHL 3 and data offset 2, accepted: the transport header
\* is read inside the IP header and the payload starts at byte 20
C37_Witness ==
    /\ probe.name = "parse_packet"
    /\ Len(probe.arg) = MaxPacket
    /\ LowNibble(probe.arg[1]) = 3
    /\ probe.arg[10] = 6
    /\ IndexesRead(probe.arg) = {0, 9} \cup (12..(MaxPacket - 1))
    /\ probe.result # None
    /\ probe.result[1].payload_size = MaxPacket - 20

\* a TCP packet with IHL 15 and data offset 15, cut one byte behind the
\* headers: the payload is its last byte
C37_WitnessLongest ==
    /\ probe.name = "parse_packet"
    /\ Len(probe.arg) = 121
    /\ LowNibble(probe.arg[1]) = 15
    /\ 120 \in IndexesRead(probe.arg)
    /\ 72 \in IndexesRead(probe.arg)

\* ---------------------------------------------------------------- C38

\* the entry is a NewConnection or a StateChange
IsNewOrChange(e) == e.event.kind \in {"NewConnection", "StateChange"}

\* the hostname of the entry is the one its connection has in the snapshot
SameHostname(e) ==
    \A j \in DOMAIN connections :
        Key(connections[j]) = EntryKey(e) => e.dns_name = connections[j].dns_hostname

\* C38: the hostname recorded on a NewConnection or StateChange event equals
\* the hostname attached to that connection in the same tick's snapshot, for
\* every kind of remote address (unspecified, loopback, cached, not cached).
C38_HostnameOfSnapshot ==
    op = "update" =>
        \A i \in DOMAIN emitted : IsNewOrChange(emitted[i]) => SameHostname(emitted[i])

\* what holds: the two hostnames are equal unless the remote address is
\* loopback; there the snapshot says localhost and the entry what the DNS
\* cache holds for the address
C38_UnlessLoopback ==
    op = "update" =>
        \A i \in DOMAIN emitted :
            IsNewOrChange(emitted[i]) =>
                IF RemoteIsLoopback(emitted[i])
                THEN /\ emitted[i].dns_name = DnsName(emitted[i], GoogleCache)
                     /\ \A j \in DOMAIN connections :
                           Key(connections[j]) = EntryKey(emitted[i]) =>
                               connections[j].dns_hostname = Some("localhost")
                ELSE SameHostname(emitted[i])

\* a tick reported the loopback connection as new: the entry has no
\* hostname, the snapshot says localhost
C38_WitnessLoopback ==
    /\ op = "update"
    /\ Kinds(emitted) = <<"NewConnection">>
    /\ EntryKey(emitted[1]) = Key(LoopConn(5))
    /\ emitted[1].dns_name = None
    /\ Len(connections) = 1
    /\ connections[1].dns_hostname = Some("localhost")

\* a tick reported a change of state of the cached connection beside the
\* closed socket as new: both entries have the hostname of the snapshot
C38_WitnessOthers ==
    /\ op = "update"
    /\ Kinds(emitted) = <<"StateChange", "NewConnection">>
    /\ emitted[1].dns_name = Some("www.google.com")
    /\ EntryKey(emitted[2]) = Key(UnconnectedConn)
    /\ emitted[2].dns_name = None
    /\ SameHostname(emitted[1]) /\ SameHostname(emitted[2])

\* ---------------------------------------------------------------- C39

IpconfigRead == probe.name = "read_dns_cache_ipconfig" /\ probe.arg # None

IsNameLine(line) == StartsWith(Trim(line), RecordNameText)

\* the name a Record Name line gives: what follows its colon
NameGiven(line) ==
    LET val == AfterFirst(Trim(line), <<58>>)
    IN IF val = None THEN <<>> ELSE Trim(val[1])

\* the address of an A (Host) or AAAA record line, None for any other line
\* and for a record line whose address does not parse
RecordIp(line) ==
    LET trimmed == Trim(line)
    IN IF IsNameLine(line) THEN None
       ELSE IF StartsWith(trimmed, HostText)
       THEN (IF AfterFirst(trimmed, <<58>>) = None THEN None
             ELSE ParseIpv4(Trim(AfterFirst(trimmed, <<58>>)[1])))
       ELSE IF StartsWith(trimmed, Ipv6RecordText)
       THEN (IF AfterFirst(trimmed, <<58, 32>>) = None THEN None
             ELSE ParseIpv6(Trim(AfterFirst(trimmed, <<58, 32>>)[1])))
       ELSE None

\* the Record Name lines a record line can take its name from: all of them,
\* or only those that give a name other than "" and "."
Naming(lines, named) ==
    {j \in 1..Len(lines) :
        IsNameLine(lines[j]) /\ (named => NameGiven(lines[j]) \notin {<<>>, <<46>>})}

\* the most recent such line before line i, 0 when there is none
NameLineBefore(lines, i, named) ==
    LET before == {j \in Naming(lines, named) : j < i}
    IN IF before = {} THEN 0 ELSE CHOOSE j \in before : \A k \in before : k <= j

\* the record lines that bind: their address parses and a name line precedes
BindingLines(lines, named) ==
    {i \in 1..Len(lines) : RecordIp(lines[i]) # None /\ NameLineBefore(lines, i, named) # 0}

\* the map the lines describe: each bound address under the name of the
\* first line that binds it
BoundMap(lines, named) ==
    LET binding == BindingLines(lines, named)
        first(ip) == CHOOSE i \in binding :
                        /\ RecordIp(lines[i]) = Some(ip)
                        /\ \A k \in binding : RecordIp(lines[k]) = Some(ip) => i <= k
    IN [ip \in {RecordIp(lines[i])[1] : i \in binding} |->
            NameGiven(lines[NameLineBefore(lines, first(ip), named)])]

\* C39: the map read_dns_cache_ipconfig returns binds the address of each
\* A (Host) or AAAA record line to the name given by the most recent Record
\* Name line before it; record lines before any Record Name line and record
\* lines whose address does not parse bind nothing; an address bound earlier
\* in the output keeps its first name
C39_RecordName == IpconfigRead => probe.result = BoundMap(probe.arg[1], FALSE)

\* what the code does: a Record Name line that gives no name, or the name
\* ".", is passed over, and the record lines after it take the name of the
\* last Record Name line that gave one
C39_LastUsableName == IpconfigRead => probe.result = BoundMap(probe.arg[1], TRUE)

\* an address under the name of the entry before the one it stands in
C39_WitnessStale ==
    /\ IpconfigRead
    /\ probe.arg[1] = <<NameLine(WwwName), NameLine(<<46>>), HostLine(PeerText)>>
    /\ probe.result = (<<10, 0, 0, 2>> :> WwwName)

\* an address bound twice keeps its first name, an IPv6 record binds too
C39_WitnessFirstName ==
    /\ IpconfigRead
    /\ probe.arg[1] = <<NameLine(WwwName), HostLine(GoogleText), NameLine(LbName), HostLine(GoogleText)>>
    /\ probe.result = (GoogleIp :> WwwName)

C39_WitnessIpv6 ==
    /\ IpconfigRead
    /\ probe.arg[1] = <<NameLine(LbName), TypeLine, Ipv6Line(Google6Text)>>
    /\ probe.result = (<<9735, 63664, 0, 0, 0, 0, 0, 8206>> :> LbName)

C39_WitnessNothing ==
    /\ IpconfigRead
    /\ probe.arg[1] = <<HostLine(GoogleText), NameLine(WwwName), HostLine(NoIpText)>>
    /\ probe.result = EmptyMap

\* ---------------------------------------------------------------- C40

Sorted == probe.name \in {"sort_connections", "toggle_sort"}

\* the key of a record in a column: the text or the number the column compares
ColumnKey(col, c) ==
    CASE col = 0 -> Bytes(IF c.proto = "Tcp" THEN "TCP" ELSE "UDP")
      [] col = 1 -> AddrToString(c.local_addr)
      [] col = 2 -> c.local_port
      [] col = 3 -> IF c.remote_addr = None THEN <<>> ELSE AddrToString(c.remote_addr[1])
      [] col = 4 -> IF c.remote_port = None THEN 0 ELSE c.remote_port[1]
      [] col = 5 -> StateRank(c.state)
      [] col = 6 -> ToLowercase(Bytes(c.process_name))
      [] OTHER -> 0

\* key a is at most key b: numbers by value, texts byte by byte
KeyLeq(col, a, b) ==
    IF col \in {0, 1, 3, 6}
    THEN CmpText(ColumnKey(col, a), ColumnKey(col, b)) # "Greater"
    ELSE ColumnKey(col, a) <= ColumnKey(col, b)

CountIn(list, c) == Cardinality({i \in DOMAIN list : list[i] = c})

IsPermutation(before, after) ==
    /\ Len(before) = Len(after)
    /\ \A i \in DOMAIN before : CountIn(after, before[i]) = CountIn(before, before[i])

IsOrdered(list, col, asc) ==
    \A i \in 1..(Len(list) - 1) :
        IF asc THEN KeyLeq(col, list[i], list[i + 1]) ELSE KeyLeq(col, list[i + 1], list[i])

\* the records of one key stand in `after` as they stood in `before`
KeepsTies(before, after, col) ==
    \A i \in DOMAIN before :
        LET SameKey(c) == ColumnKey(col, c) = ColumnKey(col, before[i])
        IN SelectSeq(after, SameKey) = SelectSeq(before, SameKey)

\* after sort_connections (alone or at the end of toggle_sort) the list is a
\* permutation of the list before, ordered by the key of the selected column
\* (0..6), non-decreasing when ascending and non-increasing when descending;
\* records of equal keys keep their order in both directions; a column
\* outside 0..6 leaves the order unchanged
C40_Sorted ==
    Sorted =>
        LET before == probe.arg.app.connections
            after == probe.result
        IN /\ IsPermutation(before, after.connections)
           /\ IsOrdered(after.connections, after.sort_column, after.sort_ascending)
           /\ KeepsTies(before, after.connections, after.sort_column)
           /\ after.sort_column \notin 0..6 => after.connections = before
           /\ probe.name = "sort_connections" =>
                  /\ after.sort_column = probe.arg.app.sort_column
                  /\ after.sort_ascending = probe.arg.app.sort_ascending

\* toggle_sort(col) flips the direction when col is the current column, else
\* selects col ascending
C40_Toggled ==
    probe.name = "toggle_sort" =>
        /\ probe.result.sort_column = probe.arg.col
        /\ probe.result.sort_ascending =
               IF probe.arg.col = probe.arg.app.sort_column
               THEN ~probe.arg.app.sort_ascending ELSE TRUE

\* C40: sort_connections leaves a permutation of the list, ordered by the key
\* of the selected column in the selected direction with the records of equal
\* keys in their previous order, and unchanged for a column outside 0..6;
\* toggle_sort(col) flips the direction of the current column and selects any
\* other column ascending
C40_SortAndToggle == C40_Sorted /\ C40_Toggled

\* a descending sort by state that moves a record and keeps a tie in order
C40_WitnessDescending ==
    /\ probe.name = "sort_connections"
    /\ probe.arg.app.sort_column = 5 /\ ~probe.arg.app.sort_ascending
    /\ probe.arg.app.connections =
           <<AttachHostname(ScenarioConn(5), GoogleCache), LoopListen, ListenAny>>
    /\ probe.result.connections =
           <<LoopListen, ListenAny, AttachHostname(ScenarioConn(5), GoogleCache)>>

\* the direction flipped with the process column selected: the names in
\* descending order without regard to case
C40_WitnessFlipped ==
    /\ probe.name = "toggle_sort"
    /\ probe.arg.col = 6 /\ probe.arg.app.sort_column = 6 /\ probe.arg.app.sort_ascending
    /\ ~probe.result.sort_ascending
    /\ probe.arg.app.connections = <<LoopListen, UdpBind, ListenAny>>
    /\ probe.result.connections = <<ListenAny, UdpBind, LoopListen>>

\* a column outside 0..6 selected over a list no column orders
C40_WitnessNoColumn ==
    /\ probe.name = "toggle_sort"
    /\ probe.result.sort_column = 7
    /\ Len(probe.result.connections) = 3
    /\ probe.result.connections = probe.arg.app.connections
    /\ \A col \in 0..6 : /\ ~IsOrdered(probe.result.connections, col, TRUE)
                         /\ ~IsOrdered(probe.result.connections, col, FALSE)
====
